---- MODULE Spec2Model ----
(***************************************************************************)
(* Model of the integration layer of sacsa-sentinel (api-clients.ts and    *)
(* server-actions.ts): the three read clients with their mock fallback and *)
(* the rollback workflow built on the deployment list client.              *)
(*                                                                         *)
(* An invocation of an async function is a process slot.  An action is the *)
(* synchronous run of the function between two awaits: the call up to the  *)
(* first fetch, and each continuation from a settled fetch up to the next  *)
(* fetch or to the return.  The network is the environment: it settles a   *)
(* pending request with any outcome.                                       *)
(*                                                                         *)
(* Strings built by concatenation are sequences of their fragments.        *)
(* Timestamps (new Date().toISOString()) are left out of every record.     *)
(***************************************************************************)
EXTENDS Integers, Sequences, FiniteSets, TLC

VARIABLES env, live, op, input, pc, requests, resp, deploymentsData, target,
          promoteResp, ret, actionRet, width, call, result, ui

vars == <<env, live, op, input, pc, requests, resp, deploymentsData, target,
          promoteResp, ret, actionRet, width, call, result, ui>>

\* width: the longest bodies the network returns in this run;
\* call, result: the argument and the value of a helper applied on its own;
\* ui: the state of a mounted TacticalRollback component.
\* fixed: what no client function writes
fixed == <<env, live, width, ui>>

-----------------------------------------------------------------------------
(* Bounds *)

\* longest deployment list the platform returns
MaxDeps == 2

\* longest issue list the error-tracking service returns
MaxIssues == 2

\* most files in a commit
MaxFiles == 2

\* longest body the network returns when two invocations run concurrently
ConcWidth == 1

\* invocation slots
Procs == {"p1", "p2"}

\* values of the inputs
ProjectNames == {"web", "api"}
DeploymentIds == {"dpl_a", "dpl_b", "dpl_mock_current"}
RequestDeploymentIds == {"dpl_a", "dpl_mock_current"}
States == {"READY", "ERROR"}
StatusTexts == {"Internal Server Error"}

None == "none"

-----------------------------------------------------------------------------
(* Completions of a function body: a returned value or a thrown exception *)

Return(v) == [exc |-> FALSE, isError |-> FALSE, message |-> <<>>, value |-> v]
Throw(isErr, msg) == [exc |-> TRUE, isError |-> isErr, message |-> msg, value |-> None]
Pending == [exc |-> FALSE, isError |-> FALSE, message |-> <<>>, value |-> "pending"]

\* new Error(msg)
NewError(msg) == Throw(TRUE, msg)

\* allSeqs of length at most n over S
SeqsUpTo(S, n) == UNION {[1..k -> S] : k \in 0..n}

-----------------------------------------------------------------------------
(* The network: outcomes of one fetch() followed by response.json() *)

\* a raw deployment of the platform's list body; createdValid is whether
\* new Date(dep.created) is a valid date (toISOString throws otherwise)
RawDeployments == [uid : DeploymentIds \ {"dpl_mock_current"}, state : States,
                   createdValid : BOOLEAN]

\* kind: rejectError  fetch rejects with an Error
\*       rejectOther  fetch rejects with a value that is not an Error
\*       non2xx       response.ok is false
\*       badJson      response.json() rejects
\*       noField      the parsed body has no deployments array
\*       ok           the parsed body has a deployments array
ListResponses ==
    [kind : {"rejectError", "rejectOther", "badJson", "noField"},
     statusText : {"OK"}, deployments : {<<>>}]
    \cup [kind : {"non2xx"}, statusText : StatusTexts, deployments : {<<>>}]
    \cup [kind : {"ok"}, statusText : {"OK"},
          deployments : SeqsUpTo(RawDeployments, width.deps)]

PromoteResponses ==
    [kind : {"rejectError", "rejectOther", "ok"}, statusText : {"OK"}]
    \cup [kind : {"non2xx"}, statusText : StatusTexts]

NoResp == [kind |-> None, statusText |-> None]

\* FetchCompletion without the response.ok test
FetchCompletionIgnoreStatus(r, apiName) ==
    CASE r.kind = "rejectError" -> Throw(TRUE, <<"fetch failed">>)
      [] r.kind = "rejectOther" -> Throw(FALSE, <<>>)
      [] OTHER -> Return(r)

\* the completion of `await fetch(...)` and of the `response.ok` test that
\* follows it; apiName is the prefix of the error the client throws
FetchCompletion(r, apiName) ==
    CASE r.kind = "rejectError" -> Throw(TRUE, <<"fetch failed">>)
      [] r.kind = "rejectOther" -> Throw(FALSE, <<>>)
      [] r.kind = "non2xx" -> NewError(<<apiName, r.statusText>>)
      [] OTHER -> Return(r)

-----------------------------------------------------------------------------
(* Mock data fallbacks *)

getMockVercelDeployments(options) ==
    [deployments |-> << [id |-> "dpl_mock_current",
                         projectName |-> options.projectName,
                         status |-> "READY"] >>]

getMockRollbackResult(options) ==
    [success |-> TRUE,
     deploymentId |-> options.deploymentId,
     previousDeploymentId |-> "dpl_mock_previous",
     status |-> "completed",
     progress |-> 100,
     message |-> <<"Mock rollback completed for ", options.projectName,
                   ". Set VERCEL_TOKEN in .env.local for real rollbacks.">>]

-----------------------------------------------------------------------------
(* fetchVercelDeployments *)

\* the request of fetchVercelDeployments
ListRequest(options) ==
    [endpoint |-> "list", id |-> options.projectName,
     limit |-> IF options.limit = 0 THEN 5 ELSE options.limit,
     teamId |-> env.VERCEL_TEAM_ID]

\* data.deployments.map(...) of fetchVercelDeployments
MapDeployments(deps, options) ==
    [i \in 1..Len(deps) |-> [id |-> deps[i].uid,
                             projectName |-> options.projectName,
                             status |-> deps[i].state]]

\* the try block of fetchVercelDeployments from the settled fetch on
FetchVercelDeploymentsTry(r, options) ==
    LET f == FetchCompletion(r, "Vercel API error: ") IN
    IF f.exc THEN f
    ELSE IF r.kind = "badJson" THEN Throw(TRUE, <<"Unexpected token">>)
    ELSE IF r.kind = "noField"
         THEN Throw(TRUE, <<"Cannot read properties of undefined">>)
    ELSE IF \E i \in 1..Len(r.deployments) : ~r.deployments[i].createdValid
         THEN Throw(TRUE, <<"Invalid time value">>)
    ELSE Return([deployments |-> MapDeployments(r.deployments, options)])

\* FetchVercelDeploymentsCont with a catch that returns an empty list
FetchVercelDeploymentsContEmpty(r, options) ==
    LET t == FetchVercelDeploymentsTry(r, options) IN
    IF t.exc THEN Return([deployments |-> <<>>]) ELSE t

\* the continuation of fetchVercelDeployments: try block and catch
FetchVercelDeploymentsCont(r, options) ==
    LET t == FetchVercelDeploymentsTry(r, options) IN
    IF t.exc THEN Return(getMockVercelDeployments(options)) ELSE t

-----------------------------------------------------------------------------
(* executeVercelRollback *)

NoDeployment == [id |-> None, projectName |-> None, status |-> None]
NoData == [deployments |-> <<>>]

Eligible(d, options) == d.id # options.deploymentId /\ d.status = "READY"

\* Array.prototype.find: the first element that satisfies the predicate
RECURSIVE FindFrom(_, _, _)
FindFrom(deps, i, options) ==
    IF i > Len(deps) THEN NoDeployment
    ELSE IF Eligible(deps[i], options) THEN deps[i]
    ELSE FindFrom(deps, i + 1, options)

\* FindTarget that keeps the last match instead of the first
RECURSIVE FindLastFrom(_, _, _)
FindLastFrom(deps, i, options) ==
    IF i < 1 THEN NoDeployment
    ELSE IF Eligible(deps[i], options) THEN deps[i]
    ELSE FindLastFrom(deps, i - 1, options)

FindTargetLast(deps, options) == FindLastFrom(deps, Len(deps), options)

FindTarget(deps, options) == FindFrom(deps, 1, options)

\* PromoteRequest that addresses the project instead of the target
PromoteRequestProject(t) ==
    [endpoint |-> "promote", id |-> t.projectName, limit |-> 0,
     teamId |-> env.VERCEL_TEAM_ID]

PromoteRequest(t) ==
    [endpoint |-> "promote", id |-> t.id, limit |-> 0,
     teamId |-> env.VERCEL_TEAM_ID]

RollbackSuccess(options, t) ==
    [success |-> TRUE,
     deploymentId |-> options.deploymentId,
     previousDeploymentId |-> t.id,
     status |-> "completed",
     progress |-> 100,
     message |-> <<"Successfully rolled back ", options.projectName,
                   " to deployment ", t.id>>]

\* RollbackCatch that reports the failure as still running
RollbackCatchInProgress(e, options) ==
    Return([success |-> FALSE,
            deploymentId |-> options.deploymentId,
            previousDeploymentId |-> None,
            status |-> "in-progress",
            progress |-> 50,
            message |-> <<"Rollback failed: ">> \o
                        (IF e.isError THEN e.message ELSE <<"Unknown error">>)])

\* the catch block of executeVercelRollback
RollbackCatch(e, options) ==
    Return([success |-> FALSE,
            deploymentId |-> options.deploymentId,
            previousDeploymentId |-> None,
            status |-> "failed",
            progress |-> 0,
            message |-> <<"Rollback failed: ">> \o
                        (IF e.isError THEN e.message ELSE <<"Unknown error">>)])

\* RollbackTry without the catch
RollbackTryNoCatch(c, options) == c

\* try { body } catch of executeVercelRollback
RollbackTry(c, options) == IF c.exc THEN RollbackCatch(c, options) ELSE c

\* the catch of the server action executeVercelRollbackAction
RollbackActionResult(c, options) ==
    IF c.exc
    THEN [caught |-> TRUE,
          value |-> [success |-> FALSE,
                     deploymentId |-> options.deploymentId,
                     message |-> <<"Failed to rollback: ">> \o
                        (IF c.isError THEN c.message ELSE <<"Unknown error">>)]]
    ELSE [caught |-> FALSE, value |-> c.value]

ListActionResult(c) ==
    IF c.exc
    THEN [caught |-> TRUE, value |-> [deployments |-> <<>>]]
    ELSE [caught |-> FALSE, value |-> c.value]

NoAction == [caught |-> FALSE, value |-> None]

-----------------------------------------------------------------------------
(* fetchSentryIssues *)

\* options.limit when the caller supplies none
NoLimit == -1

\* issue.count when the payload has none
NoCount == -1

\* a raw issue of the error-tracking service.  A field that the payload
\* lacks is None; isObject is FALSE for a null element of the array.
\* hasEntries: issue.lastEvent?.entries is present; hasStacktrace: its
\* exception entry carries data.values[0].stacktrace; frames: the
\* function names of stacktrace.frames (None for a frame without one).
RawIssue(isObj, title, mtype, mvalue, culprit, hasEntries, hasStack, frames, level, count) ==
    [isObject |-> isObj, id |-> "1", title |-> title, metaType |-> mtype,
     metaValue |-> mvalue, culprit |-> culprit, hasEntries |-> hasEntries,
     hasStacktrace |-> hasStack, frames |-> frames, level |-> level,
     count |-> count, userCount |-> 0]

SampleRawIssues ==
    { RawIssue(TRUE, "T", None, "boom", None, FALSE, FALSE, <<>>, "error", 3),
      RawIssue(TRUE, None, "TypeError", None, "app.js", FALSE, FALSE, <<>>, "warning", 1),
      RawIssue(TRUE, None, None, None, None, TRUE, TRUE, <<"f", None>>, None, 0),
      RawIssue(FALSE, None, None, None, None, FALSE, FALSE, <<>>, None, 0) }

\* frames.slice(-5)
LastFrames(frames) ==
    IF Len(frames) <= 5 THEN frames ELSE SubSeq(frames, Len(frames) - 4, Len(frames))

\* one line of the joined stack: at {function|anonymous} (file:line:col)
FrameLine(fn) == <<"at ", IF fn = None THEN "anonymous" ELSE fn, " (file:line:col)">>

\* frames.slice(-5).map(...).join("\n")
RECURSIVE JoinFrames(_)
JoinFrames(frames) ==
    IF frames = <<>> THEN <<>>
    ELSE IF Len(frames) = 1 THEN FrameLine(frames[1])
    ELSE FrameLine(frames[1]) \o <<"\n">> \o JoinFrames(Tail(frames))

\* the stackTrace variable of the map callback before the final fallback
ExtractStackTrace(issue) ==
    IF issue.metaValue # None THEN <<issue.metaValue>>
    ELSE IF issue.culprit # None THEN <<"at ", issue.culprit>>
    ELSE IF issue.hasEntries /\ issue.hasStacktrace
         THEN JoinFrames(LastFrames(issue.frames))
    ELSE <<>>

\* NormalizeIssue that classifies only the level error as critical
NormalizeIssueErrorOnly(issue, project) ==
    [id |-> issue.id,
     title |-> IF issue.title # None THEN issue.title
               ELSE IF issue.metaType # None THEN issue.metaType
               ELSE "Unknown error",
     severity |-> IF issue.level = "error" THEN "critical" ELSE "warning",
     count |-> IF issue.count = NoCount THEN 0 ELSE issue.count,
     project |-> project,
     affectedUsers |-> issue.userCount,
     stackTrace |-> IF ExtractStackTrace(issue) # <<>> THEN ExtractStackTrace(issue)
                    ELSE <<IF issue.title = None THEN "undefined" ELSE issue.title,
                           " (no stack trace available)">>]

\* the record the map callback returns for one raw issue
NormalizeIssue(issue, project) ==
    [id |-> issue.id,
     title |-> IF issue.title # None THEN issue.title
               ELSE IF issue.metaType # None THEN issue.metaType
               ELSE "Unknown error",
     severity |-> IF issue.level = "error" \/ issue.level = "fatal"
                  THEN "critical" ELSE "warning",
     count |-> IF issue.count = NoCount THEN 0 ELSE issue.count,
     project |-> project,
     affectedUsers |-> issue.userCount,
     stackTrace |-> IF ExtractStackTrace(issue) # <<>> THEN ExtractStackTrace(issue)
                    ELSE <<IF issue.title = None THEN "undefined" ELSE issue.title,
                           " (no stack trace available)">>]

\* issues.slice(0, options.limit || 10)
SliceLimit(issues, limit) ==
    LET n == IF limit = NoLimit \/ limit = 0 THEN 10 ELSE limit IN
    IF Len(issues) <= n THEN issues ELSE SubSeq(issues, 1, n)

RECURSIVE SumCounts(_)
SumCounts(issues) ==
    IF issues = <<>> THEN 0 ELSE issues[1].count + SumCounts(Tail(issues))

\* CountSeverity that counts every issue
CountSeverityAll(issues, sev) == Len(issues)

CountSeverity(issues, sev) ==
    Cardinality({i \in 1..Len(issues) : issues[i].severity = sev})

getMockSentryData ==
    [issues |-> << [id |-> "94486645",
                    title |-> "ReferenceError: myUndefinedFunction is not defined",
                    severity |-> "critical",
                    count |-> 6,
                    project |-> "javascript",
                    affectedUsers |-> 5,
                    stackTrace |-> <<"ReferenceError: myUndefinedFunction is not defined ...">>] >>,
     summary |-> [critical |-> 1, warning |-> 0, resolved |-> 0, totalEvents |-> 6]]

\* outcomes of the issue request; kind nonArray: the parsed body is not an
\* array
SentryResponses ==
    [kind : {"rejectError", "rejectOther", "badJson", "nonArray"},
     statusText : {"OK"}, issues : {<<>>}]
    \cup [kind : {"non2xx"}, statusText : StatusTexts, issues : {<<>>}]
    \cup [kind : {"ok"}, statusText : {"OK"},
          issues : SeqsUpTo(SampleRawIssues, width.issues)]

\* const project = options.projectId || process.env.SENTRY_PROJECT_SLUG
SentryProject(options) ==
    IF options.projectId # None THEN options.projectId
    ELSE IF env.SENTRY_PROJECT_SLUG THEN "env-slug" ELSE None

\* SentryConfigured without the organization test
SentryConfiguredNoOrg(options) ==
    env.SENTRY_AUTH_TOKEN /\ SentryProject(options) # None

\* the negation of the test !authToken || !org || !project
SentryConfigured(options) ==
    env.SENTRY_AUTH_TOKEN /\ env.SENTRY_ORG /\ SentryProject(options) # None

SentryRequest(options) ==
    [endpoint |-> "issues", id |-> SentryProject(options), limit |-> 0,
     teamId |-> FALSE]

\* the try block of fetchSentryIssues from the settled fetch on
FetchSentryIssuesTry(r, options) ==
    LET f == FetchCompletion(r, "Sentry API error: ") IN
    IF f.exc THEN f
    ELSE IF r.kind = "badJson" THEN Throw(TRUE, <<"Unexpected token">>)
    ELSE IF r.kind = "nonArray" THEN NewError(<<"Invalid Sentry API response">>)
    ELSE LET sliced == SliceLimit(r.issues, options.limit) IN
         IF \E i \in 1..Len(sliced) : ~sliced[i].isObject
         THEN Throw(TRUE, <<"Cannot read properties of null">>)
         ELSE LET transformedIssues ==
                      [i \in 1..Len(sliced) |->
                          NormalizeIssue(sliced[i], SentryProject(options))]
              IN Return([issues |-> transformedIssues,
                         summary |-> [critical |-> CountSeverity(transformedIssues, "critical"),
                                      warning |-> CountSeverity(transformedIssues, "warning"),
                                      resolved |-> 0,
                                      totalEvents |-> SumCounts(transformedIssues)]])

\* FetchSentryIssuesCont that keeps only the issues of the requested
\* severity
FetchSentryIssuesContFiltered(r, options) ==
    LET t == FetchSentryIssuesTry(r, options) IN
    IF t.exc THEN Return(getMockSentryData)
    ELSE IF options.severity = None THEN t
    ELSE Return([t.value EXCEPT
                   !.issues = SelectSeq(@, LAMBDA i : i.severity = options.severity)])

\* FetchSentryIssuesCont without the catch
FetchSentryIssuesContNoCatch(r, options) == FetchSentryIssuesTry(r, options)

\* the continuation of fetchSentryIssues: try block and catch
FetchSentryIssuesCont(r, options) ==
    LET t == FetchSentryIssuesTry(r, options) IN
    IF t.exc THEN Return(getMockSentryData) ELSE t

\* the catch of the server action getSentryIssuesAction
SentryActionResult(c) ==
    IF c.exc
    THEN [caught |-> TRUE,
          value |-> [issues |-> <<>>,
                     summary |-> [critical |-> 0, warning |-> 0, resolved |-> 0,
                                  totalEvents |-> 0]]]
    ELSE [caught |-> FALSE, value |-> c.value]

-----------------------------------------------------------------------------
(* parsePatch, getLanguageFromFilename, analyzeChanges *)

\* A line of text is the sequence of its characters; a patch is the
\* sequence of lines patch.split("\n") yields.

Digits == {"0", "1", "2", "3", "4", "5", "6", "7", "8", "9"}

DigitVal(c) ==
    CASE c = "0" -> 0 [] c = "1" -> 1 [] c = "2" -> 2 [] c = "3" -> 3
      [] c = "4" -> 4 [] c = "5" -> 5 [] c = "6" -> 6 [] c = "7" -> 7
      [] c = "8" -> 8 [] c = "9" -> 9

\* parseInt of a string of decimal digits
RECURSIVE ParseInt(_)
ParseInt(ds) ==
    IF ds = <<>> THEN 0
    ELSE 10 * ParseInt(SubSeq(ds, 1, Len(ds) - 1)) + DigitVal(ds[Len(ds)])

\* lit occurs in line at index i
HasAt(line, i, lit) ==
    /\ i >= 1
    /\ i + Len(lit) - 1 <= Len(line)
    /\ SubSeq(line, i, i + Len(lit) - 1) = lit

\* String.prototype.startsWith and includes
StartsWith(line, lit) == HasAt(line, 1, lit)
Includes(line, lit) == \E i \in 1..Len(line) : HasAt(line, i, lit)

\* the index after the longest run of digits that starts at i (\d*)
RECURSIVE DigitRunEnd(_, _)
DigitRunEnd(line, i) ==
    IF i <= Len(line) /\ line[i] \in Digits THEN DigitRunEnd(line, i + 1) ELSE i

\* the index after an optional comma at i (,?)
SkipComma(line, i) == IF HasAt(line, i, <<",">>) THEN i + 1 ELSE i

\* HunkMatchAt that reads the start line of the old file (the first group)
HunkMatchAtOldStart(line, s) ==
    LET a == s + 4
        b == DigitRunEnd(line, a)
        c == DigitRunEnd(line, SkipComma(line, b))
        d == c + 2
        e == DigitRunEnd(line, d)
        f == DigitRunEnd(line, SkipComma(line, e))
    IN IF /\ HasAt(line, s, <<"@", "@", " ", "-">>)
          /\ b > a
          /\ HasAt(line, c, <<" ", "+">>)
          /\ e > d
          /\ HasAt(line, f, <<" ", "@", "@">>)
       THEN ParseInt(SubSeq(line, a, b - 1))
       ELSE -1

\* /@@ -(\d+),?\d* \+(\d+),?\d* @@/ tried at index s: parseInt of the
\* second group, or -1 when the pattern does not match there
HunkMatchAt(line, s) ==
    LET a == s + 4
        b == DigitRunEnd(line, a)
        c == DigitRunEnd(line, SkipComma(line, b))
        d == c + 2
        e == DigitRunEnd(line, d)
        f == DigitRunEnd(line, SkipComma(line, e))
    IN IF /\ HasAt(line, s, <<"@", "@", " ", "-">>)
          /\ b > a
          /\ HasAt(line, c, <<" ", "+">>)
          /\ e > d
          /\ HasAt(line, f, <<" ", "@", "@">>)
       THEN ParseInt(SubSeq(line, d, e - 1))
       ELSE -1

\* line.match(...): the leftmost match, -1 for null
RECURSIVE HunkMatchFrom(_, _)
HunkMatchFrom(line, s) ==
    IF s > Len(line) THEN -1
    ELSE IF HunkMatchAt(line, s) # -1 THEN HunkMatchAt(line, s)
    ELSE HunkMatchFrom(line, s + 1)

HunkMatch(line) == HunkMatchFrom(line, 1)

\* line.substring(1)
Rest(line) == SubSeq(line, 2, Len(line))

\* ScanLines in which a remove line advances the counter too
RECURSIVE ScanLinesRemoveAdvances(_, _, _, _)
ScanLinesRemoveAdvances(lines, i, lineNumber, changes) ==
    IF i > Len(lines) THEN changes
    ELSE LET line == lines[i] IN
    IF StartsWith(line, <<"@", "@">>)
    THEN ScanLinesRemoveAdvances(lines, i + 1,
                   IF HunkMatch(line) # -1 THEN HunkMatch(line) ELSE lineNumber,
                   changes)
    ELSE IF StartsWith(line, <<"+">>)
    THEN ScanLinesRemoveAdvances(lines, i + 1, lineNumber + 1,
                   Append(changes, [lineNumber |-> lineNumber, type |-> "add",
                                    content |-> Rest(line)]))
    ELSE IF StartsWith(line, <<"-">>)
    THEN ScanLinesRemoveAdvances(lines, i + 1, lineNumber + 1,
                   Append(changes, [lineNumber |-> lineNumber, type |-> "remove",
                                    content |-> Rest(line)]))
    ELSE IF StartsWith(line, <<" ">>)
    THEN ScanLinesRemoveAdvances(lines, i + 1, lineNumber + 1,
                   Append(changes, [lineNumber |-> lineNumber, type |-> "context",
                                    content |-> Rest(line)]))
    ELSE ScanLinesRemoveAdvances(lines, i + 1, lineNumber, changes)

\* the for loop of parsePatch from line i on, with the counter lineNumber
\* and the records pushed so far
RECURSIVE ScanLines(_, _, _, _)
ScanLines(lines, i, lineNumber, changes) ==
    IF i > Len(lines) THEN changes
    ELSE LET line == lines[i] IN
    IF StartsWith(line, <<"@", "@">>)
    THEN ScanLines(lines, i + 1,
                   IF HunkMatch(line) # -1 THEN HunkMatch(line) ELSE lineNumber,
                   changes)
    ELSE IF StartsWith(line, <<"+">>)
    THEN ScanLines(lines, i + 1, lineNumber + 1,
                   Append(changes, [lineNumber |-> lineNumber, type |-> "add",
                                    content |-> Rest(line)]))
    ELSE IF StartsWith(line, <<"-">>)
    THEN ScanLines(lines, i + 1, lineNumber,
                   Append(changes, [lineNumber |-> lineNumber, type |-> "remove",
                                    content |-> Rest(line)]))
    ELSE IF StartsWith(line, <<" ">>)
    THEN ScanLines(lines, i + 1, lineNumber + 1,
                   Append(changes, [lineNumber |-> lineNumber, type |-> "context",
                                    content |-> Rest(line)]))
    ELSE ScanLines(lines, i + 1, lineNumber, changes)

\* changes.slice(0, 20)
DisplayLimit == 20

\* parsePatch without the final slice
parsePatchNoLimit(lines) == ScanLines(lines, 1, 0, <<>>)

parsePatch(lines) ==
    LET changes == ScanLines(lines, 1, 0, <<>>) IN
    IF Len(changes) <= DisplayLimit THEN changes ELSE SubSeq(changes, 1, DisplayLimit)

\* file.patch || "" split into lines: the empty text is one empty line
PatchLines(patch) == IF patch = <<>> THEN << <<>> >> ELSE patch

\* A file name is the sequence of the segments filename.split(".") yields.
ToLowerCase(ext) ==
    CASE ext = "TS" -> "ts" [] ext = "PY" -> "py" [] OTHER -> ext

LangExts == {"ts", "tsx", "js", "jsx", "py", "go", "java", "rb", "php", "css", "html"}

langMap(ext) ==
    CASE ext \in {"ts", "tsx"} -> "typescript"
      [] ext \in {"js", "jsx"} -> "javascript"
      [] ext = "py" -> "python"
      [] ext = "rb" -> "ruby"
      [] OTHER -> ext

getLanguageFromFilename(filename) ==
    LET ext == ToLowerCase(filename[Len(filename)]) IN
    IF ext \in LangExts THEN langMap(ext) ELSE "text"

ConsoleLog == <<"c", "o", "n", "s", "o", "l", "e", ".", "l", "o", "g">>
Todo == <<"T", "O", "D", "O">>
Fixme == <<"F", "I", "X", "M", "E">>
AnyLit == <<"a", "n", "y">>

\* array.some over the content of all records, whatever their type
SomeAddedAnyType(changes, lit) ==
    \E i \in 1..Len(changes) : Includes(changes[i].content, lit)

\* array.some over the content of the add records
SomeAdded(changes, lit) ==
    \E i \in 1..Len(changes) :
        changes[i].type = "add" /\ Includes(changes[i].content, lit)

analyzeChanges(changes, filename) ==
    LET issues ==
          (IF SomeAdded(changes, ConsoleLog)
           THEN <<"Debug logging statement added - consider removing before production">>
           ELSE <<>>)
          \o (IF SomeAdded(changes, Todo) \/ SomeAdded(changes, Fixme)
              THEN <<"TODO/FIXME comments found - incomplete work may exist">>
              ELSE <<>>)
          \o (IF SomeAdded(changes, AnyLit)
              THEN <<"TypeScript 'any' type used - consider using specific types">>
              ELSE <<>>)
    IN IF Len(issues) = 0
       THEN <<"No obvious issues detected - changes appear safe">>
       ELSE issues

-----------------------------------------------------------------------------
(* fetchGitHubCommitDiff *)

\* "@@ -1,3 +5,3 @@", " a", "-b", "+c", " d"
PatchHunk ==
    << <<"@", "@", " ", "-", "1", ",", "3", " ", "+", "5", ",", "3", " ", "@", "@">>,
       <<" ", "a">>, <<"-", "b">>, <<"+", "c">>, <<" ", "d">> >>

\* "--- a/x", "+++ b/x", "@@ -2 +2 @@", "+console.log(any) // TODO"
PatchDebug ==
    << <<"-", "-", "-", " ", "a", "/", "x">>,
       <<"+", "+", "+", " ", "b", "/", "x">>,
       <<"@", "@", " ", "-", "2", " ", "+", "2", " ", "@", "@">>,
       <<"+">> \o ConsoleLog \o <<"(">> \o AnyLit \o <<")", " ">> \o Todo >>

\* a file of the commit; patch <<>> is a file without patch text
SampleFiles ==
    { [filename |-> <<"a", "ts">>, patch |-> PatchHunk, additions |-> 1, deletions |-> 1],
      [filename |-> <<"b", "PY">>, patch |-> PatchDebug, additions |-> 1, deletions |-> 0],
      [filename |-> <<"LICENSE">>, patch |-> <<>>, additions |-> 0, deletions |-> 0] }

\* outcomes of the commit request; kind noFiles: commitData.files is
\* missing; noCommit: commitData.commit is missing
GitHubResponses ==
    [kind : {"rejectError", "rejectOther", "badJson", "noFiles"},
     statusText : {"OK"}, files : {<<>>}]
    \cup [kind : {"non2xx"}, statusText : StatusTexts, files : {<<>>}]
    \cup [kind : {"ok", "noCommit"}, statusText : {"OK"},
          files : SeqsUpTo(SampleFiles, width.files)]

NoFile == [filename |-> <<>>, patch |-> <<>>, additions |-> 0, deletions |-> 0]

\* commitData.files.find(f => f.filename === options.fileName)
RECURSIVE FindFile(_, _, _)
FindFile(files, i, fileName) ==
    IF i > Len(files) THEN NoFile
    ELSE IF files[i].filename = fileName THEN files[i]
    ELSE FindFile(files, i + 1, fileName)

\* SelectFile that substitutes the first file for a named file the commit
\* does not contain
SelectFileFallback(files, options) ==
    IF options.fileName # <<>> /\ FindFile(files, 1, options.fileName) # NoFile
    THEN FindFile(files, 1, options.fileName)
    ELSE IF Len(files) > 0 THEN files[1] ELSE NoFile

\* options.fileName ? files.find(...) : files[0]
SelectFile(files, options) ==
    IF options.fileName # <<>> THEN FindFile(files, 1, options.fileName)
    ELSE IF Len(files) > 0 THEN files[1] ELSE NoFile

getMockGitHubData(options) ==
    [commit |-> [sha |-> "abc123f",
                 message |-> "Refactor: Rename validateAndSubmit to handleFormValidation for clarity",
                 author |-> "dev@example.com",
                 branch |-> "main"],
     diff |-> [fileName |-> <<"src/utils/formHelpers", "ts">>,
               language |-> "typescript",
               additions |-> 3,
               deletions |-> 3,
               changes |-> <<
                 [lineNumber |-> 12, type |-> "remove",
                  content |-> <<"export function validateAndSubmit(data: FormData) {">>],
                 [lineNumber |-> 13, type |-> "remove",
                  content |-> <<"  // Validate form data">>],
                 [lineNumber |-> 14, type |-> "remove",
                  content |-> <<"  return apiClient.post('/submit', data);">>],
                 [lineNumber |-> 12, type |-> "add",
                  content |-> <<"export function handleFormValidation(data: FormData) {">>],
                 [lineNumber |-> 13, type |-> "add",
                  content |-> <<"  // Validate form data before submission">>],
                 [lineNumber |-> 14, type |-> "add",
                  content |-> <<"  return apiClient.post('/submit', data);">>],
                 [lineNumber |-> 15, type |-> "context", content |-> <<"}">>] >>],
     analysis |-> [severity |-> "high",
                   potentialIssues |-> <<
                     "Function renamed but not all call sites updated",
                     "Missing import update in ContactForm.tsx:45",
                     "Breaking change deployed without backward compatibility">>,
                   recommendation |->
                     "Add backward-compatible alias or update all references before deploying"]]

GitHubRequest(options) ==
    [endpoint |-> "commit", id |-> options.commitSha, limit |-> 0, teamId |-> FALSE]

\* the try block of fetchGitHubCommitDiff from the settled fetch on
FetchGitHubCommitDiffTry(r, options) ==
    LET f == FetchCompletion(r, "GitHub API error: ") IN
    IF f.exc THEN f
    ELSE IF r.kind = "badJson" THEN Throw(TRUE, <<"Unexpected token">>)
    ELSE IF r.kind = "noFiles"
         THEN Throw(TRUE, <<"Cannot read properties of undefined">>)
    ELSE LET file == SelectFile(r.files, options) IN
         IF file = NoFile THEN NewError(<<"No files found in commit">>)
         ELSE IF r.kind = "noCommit"
              THEN Throw(TRUE, <<"Cannot read properties of undefined">>)
         ELSE LET changes == parsePatch(PatchLines(file.patch)) IN
              Return([commit |-> [sha |-> options.commitSha,
                                  message |-> "commit message",
                                  author |-> "author@example.com",
                                  branch |-> "main"],
                      diff |-> [fileName |-> file.filename,
                                language |-> getLanguageFromFilename(file.filename),
                                additions |-> file.additions,
                                deletions |-> file.deletions,
                                changes |-> changes],
                      analysis |-> [severity |-> "medium",
                                    potentialIssues |-> analyzeChanges(changes, file.filename),
                                    recommendation |->
                                      "Review changes for potential issues before deploying to production."]])

\* the continuation of fetchGitHubCommitDiff: try block and catch
FetchGitHubCommitDiffCont(r, options) ==
    LET t == FetchGitHubCommitDiffTry(r, options) IN
    IF t.exc THEN Return(getMockGitHubData(options)) ELSE t

\* the catch of the server action getGitHubCommitDiffAction
GitHubActionResult(c, options) ==
    IF c.exc
    THEN [caught |-> TRUE,
          value |-> [commit |-> [sha |-> options.commitSha,
                                 message |-> "Error fetching commit",
                                 author |-> "unknown",
                                 branch |-> "main"],
                     diff |-> [fileName |-> IF options.fileName # <<>>
                                            THEN options.fileName ELSE <<"unknown">>,
                               language |-> "text",
                               additions |-> 0,
                               deletions |-> 0,
                               changes |-> <<>>],
                     analysis |-> [severity |-> "low",
                                   potentialIssues |-> <<>>,
                                   recommendation |-> "Unable to analyze changes at this time."]]]
    ELSE [caught |-> FALSE, value |-> c.value]

-----------------------------------------------------------------------------
(* State *)

Envs == [VERCEL_TOKEN : BOOLEAN, VERCEL_TEAM_ID : BOOLEAN,
         SENTRY_AUTH_TOKEN : BOOLEAN, SENTRY_ORG : BOOLEAN,
         SENTRY_PROJECT_SLUG : BOOLEAN, GITHUB_TOKEN : BOOLEAN]

GitHubInputs == [owner : {"vercel"}, repo : {"next.js"}, commitSha : {"main"},
                 fileName : {<<>>, <<"b", "PY">>, <<"missing", "md">>}]

SentryInputs == [projectId : {None, "proj"}, severity : {None, "critical"},
                 limit : {NoLimit, 0, 1}]

ListInputs == [projectName : ProjectNames, limit : {0, 5}]
RollbackInputs == [deploymentId : RequestDeploymentIds,
                   projectName : ProjectNames]

NoCall == [fn |-> None]
NoResult == [done |-> FALSE]

FullWidth == [deps |-> MaxDeps, issues |-> MaxIssues, files |-> MaxFiles]

\* no invocation has started; E: the configurations, L: the slots that may
\* run, w: the width of the bodies
InitClients(E, L, w) ==
    /\ env \in E
    /\ live = L
    /\ width = w
    /\ op = [p \in Procs |-> None]
    /\ input = [p \in Procs |-> None]
    /\ pc = [p \in Procs |-> "idle"]
    /\ requests = [p \in Procs |-> <<>>]
    /\ resp = [p \in Procs |-> NoResp]
    /\ deploymentsData = [p \in Procs |-> NoData]
    /\ target = [p \in Procs |-> NoDeployment]
    /\ promoteResp = [p \in Procs |-> NoResp]
    /\ ret = [p \in Procs |-> Pending]
    /\ actionRet = [p \in Procs |-> NoAction]

\* the result of onExecute the component holds before the first execution
\* (outputData === null)
NoProgress == -1
NoOutput == [success |-> FALSE, status |-> None, progress |-> NoProgress]

\* what onExecute settled with last
NotSettled == [kind |-> None, output |-> NoOutput, message |-> None]

\* the state of TacticalRollbackBase after its first render: the useState
\* initial values, no interval, no execution; rendered is what the last
\* render captured in its closures, interval the progress the running
\* interval captured, inFlight the pending onExecute calls
MountedComponent(hasOnExecute) ==
    [mounted |-> TRUE, onExecute |-> hasOnExecute,
     localProgress |-> 0, outputData |-> NoOutput, isExecuting |-> FALSE,
     error |-> None,
     rendered |-> [isExecuting |-> FALSE, progress |-> NoProgress],
     interval |-> NoProgress, inFlight |-> 0, settled |-> NotSettled,
     clicks |-> 0, ticks |-> 0]

NoComponent == [MountedComponent(FALSE) EXCEPT !.mounted = FALSE]

InitState(E, L, w) ==
    /\ InitClients(E, L, w)
    /\ ui = NoComponent

InitWith(L) ==
    /\ InitState(Envs, L, FullWidth)
    /\ call = NoCall
    /\ result = NoResult

Init == InitWith({"p1"})

\* the function of slot p completes with c and its server action with a
Finish(p, c, a) ==
    /\ pc' = [pc EXCEPT ![p] = "done"]
    /\ ret' = [ret EXCEPT ![p] = c]
    /\ actionRet' = [actionRet EXCEPT ![p] = a]

-----------------------------------------------------------------------------
(* getVercelDeploymentsAction -> fetchVercelDeployments *)

CallFetchVercelDeployments(p) ==
    /\ p \in live /\ pc[p] = "idle"
    /\ \E options \in ListInputs :
        /\ op' = [op EXCEPT ![p] = "list"]
        /\ input' = [input EXCEPT ![p] = options]
        /\ IF ~env.VERCEL_TOKEN
           THEN /\ Finish(p, Return(getMockVercelDeployments(options)),
                          ListActionResult(Return(getMockVercelDeployments(options))))
                /\ UNCHANGED requests
           ELSE /\ requests' = [requests EXCEPT ![p] = Append(@, ListRequest(options))]
                /\ pc' = [pc EXCEPT ![p] = "awaitList"]
                /\ UNCHANGED <<ret, actionRet>>
    /\ UNCHANGED <<fixed, call, result, resp, deploymentsData, target, promoteResp>>

ListSettles(p) ==
    /\ pc[p] = "awaitList" /\ op[p] = "list"
    /\ \E r \in ListResponses :
        LET c == FetchVercelDeploymentsCont(r, input[p]) IN
        /\ resp' = [resp EXCEPT ![p] = r]
        /\ Finish(p, c, ListActionResult(c))
    /\ UNCHANGED <<fixed, call, result, op, input, requests, deploymentsData, target, promoteResp>>

-----------------------------------------------------------------------------
(* executeVercelRollbackAction -> executeVercelRollback *)

\* the options executeVercelRollback passes to fetchVercelDeployments
RollbackListOptions(options) == [projectName |-> options.projectName, limit |-> 10]

CallExecuteVercelRollback(p) ==
    /\ p \in live /\ pc[p] = "idle"
    /\ \E options \in RollbackInputs :
        /\ op' = [op EXCEPT ![p] = "rollback"]
        /\ input' = [input EXCEPT ![p] = options]
        /\ IF ~env.VERCEL_TOKEN
           THEN /\ Finish(p, Return(getMockRollbackResult(options)),
                          RollbackActionResult(Return(getMockRollbackResult(options)), options))
                /\ UNCHANGED requests
           ELSE /\ requests' = [requests EXCEPT ![p] =
                                   Append(@, ListRequest(RollbackListOptions(options)))]
                /\ pc' = [pc EXCEPT ![p] = "awaitList"]
                /\ UNCHANGED <<ret, actionRet>>
    /\ UNCHANGED <<fixed, call, result, resp, deploymentsData, target, promoteResp>>

\* RollbackListSettles that reuses the deployment list another invocation
\* has fetched, as a module-level cache would
RollbackListSettlesCached(p) ==
    /\ pc[p] = "awaitList" /\ op[p] = "rollback"
    /\ \E r \in ListResponses :
        LET options == input[p]
            cached == {q \in Procs \ {p} : deploymentsData[q] # NoData}
            data == IF cached # {}
                    THEN Return(deploymentsData[CHOOSE q \in cached : TRUE])
                    ELSE FetchVercelDeploymentsCont(r, RollbackListOptions(options))
            t == FindTarget(data.value.deployments, options)
            c == RollbackTry(NewError(<<"No suitable deployment found for rollback">>),
                             options)
        IN
        /\ resp' = [resp EXCEPT ![p] = r]
        /\ deploymentsData' = [deploymentsData EXCEPT ![p] = data.value]
        /\ target' = [target EXCEPT ![p] = t]
        /\ IF t = NoDeployment
           THEN /\ Finish(p, c, RollbackActionResult(c, options))
                /\ UNCHANGED requests
           ELSE /\ requests' = [requests EXCEPT ![p] = Append(@, PromoteRequest(t))]
                /\ pc' = [pc EXCEPT ![p] = "awaitPromote"]
                /\ UNCHANGED <<ret, actionRet>>
    /\ UNCHANGED <<fixed, call, result, op, input, promoteResp>>

\* the list fetch of a rollback settles: fetchVercelDeployments returns,
\* the target is selected and the promote request is issued
RollbackListSettles(p) ==
    /\ pc[p] = "awaitList" /\ op[p] = "rollback"
    /\ \E r \in ListResponses :
        LET options == input[p]
            data == FetchVercelDeploymentsCont(r, RollbackListOptions(options))
            t == IF data.exc THEN NoDeployment
                 ELSE FindTarget(data.value.deployments, options)
            c == IF data.exc THEN RollbackTry(data, options)
                 ELSE RollbackTry(NewError(<<"No suitable deployment found for rollback">>),
                                  options)
        IN
        /\ resp' = [resp EXCEPT ![p] = r]
        /\ deploymentsData' = [deploymentsData EXCEPT ![p] =
                                  IF data.exc THEN NoData ELSE data.value]
        /\ target' = [target EXCEPT ![p] = t]
        /\ IF t = NoDeployment
           THEN /\ Finish(p, c, RollbackActionResult(c, options))
                /\ UNCHANGED requests
           ELSE /\ requests' = [requests EXCEPT ![p] = Append(@, PromoteRequest(t))]
                /\ pc' = [pc EXCEPT ![p] = "awaitPromote"]
                /\ UNCHANGED <<ret, actionRet>>
    /\ UNCHANGED <<fixed, call, result, op, input, promoteResp>>

\* PromoteSettles that reads the body of a successful promote response
\* inside the try block and fails on it
PromoteSettlesParseBody(p) ==
    /\ pc[p] = "awaitPromote"
    /\ \E r \in PromoteResponses :
        LET options == input[p]
            f == FetchCompletion(r, "Vercel rollback error: ")
            body == IF f.exc THEN f
                    ELSE Throw(TRUE, <<"Unexpected end of JSON input">>)
            c == RollbackTry(body, options)
        IN
        /\ promoteResp' = [promoteResp EXCEPT ![p] = r]
        /\ Finish(p, c, RollbackActionResult(c, options))
    /\ UNCHANGED <<fixed, call, result, op, input, requests, resp, deploymentsData, target>>

\* PromoteSettles that issues the promote request again after a failure
PromoteSettlesRetry(p) ==
    /\ pc[p] = "awaitPromote"
    /\ \E r \in PromoteResponses :
        LET options == input[p]
            f == FetchCompletion(r, "Vercel rollback error: ")
            body == IF f.exc THEN f
                    ELSE Return(RollbackSuccess(options, target[p]))
            c == RollbackTry(body, options)
        IN
        /\ promoteResp' = [promoteResp EXCEPT ![p] = r]
        /\ IF f.exc /\ Len(requests[p]) < 3
           THEN /\ requests' = [requests EXCEPT ![p] = Append(@, PromoteRequest(target[p]))]
                /\ UNCHANGED <<pc, ret, actionRet>>
           ELSE /\ Finish(p, c, RollbackActionResult(c, options))
                /\ UNCHANGED requests
    /\ UNCHANGED <<fixed, call, result, op, input, resp, deploymentsData, target>>

\* the promote fetch settles
PromoteSettles(p) ==
    /\ pc[p] = "awaitPromote"
    /\ \E r \in PromoteResponses :
        LET options == input[p]
            f == FetchCompletion(r, "Vercel rollback error: ")
            body == IF f.exc THEN f
                    ELSE Return(RollbackSuccess(options, target[p]))
            c == RollbackTry(body, options)
        IN
        /\ promoteResp' = [promoteResp EXCEPT ![p] = r]
        /\ Finish(p, c, RollbackActionResult(c, options))
    /\ UNCHANGED <<fixed, call, result, op, input, requests, resp, deploymentsData, target>>

-----------------------------------------------------------------------------
(* getSentryIssuesAction -> fetchSentryIssues *)

CallFetchSentryIssues(p) ==
    /\ p \in live /\ pc[p] = "idle"
    /\ \E options \in SentryInputs :
        /\ op' = [op EXCEPT ![p] = "issues"]
        /\ input' = [input EXCEPT ![p] = options]
        /\ IF ~SentryConfigured(options)
           THEN /\ Finish(p, Return(getMockSentryData),
                          SentryActionResult(Return(getMockSentryData)))
                /\ UNCHANGED requests
           ELSE /\ requests' = [requests EXCEPT ![p] = Append(@, SentryRequest(options))]
                /\ pc' = [pc EXCEPT ![p] = "awaitIssues"]
                /\ UNCHANGED <<ret, actionRet>>
    /\ UNCHANGED <<fixed, call, result, resp, deploymentsData, target, promoteResp>>

SentrySettles(p) ==
    /\ pc[p] = "awaitIssues"
    /\ \E r \in SentryResponses :
        LET c == FetchSentryIssuesCont(r, input[p]) IN
        /\ resp' = [resp EXCEPT ![p] = r]
        /\ Finish(p, c, SentryActionResult(c))
    /\ UNCHANGED <<fixed, call, result, op, input, requests, deploymentsData, target, promoteResp>>

-----------------------------------------------------------------------------
(* getGitHubCommitDiffAction -> fetchGitHubCommitDiff *)

CallFetchGitHubCommitDiff(p) ==
    /\ p \in live /\ pc[p] = "idle"
    /\ \E options \in GitHubInputs :
        /\ op' = [op EXCEPT ![p] = "commit"]
        /\ input' = [input EXCEPT ![p] = options]
        /\ IF ~env.GITHUB_TOKEN
           THEN /\ Finish(p, Return(getMockGitHubData(options)),
                          GitHubActionResult(Return(getMockGitHubData(options)), options))
                /\ UNCHANGED requests
           ELSE /\ requests' = [requests EXCEPT ![p] = Append(@, GitHubRequest(options))]
                /\ pc' = [pc EXCEPT ![p] = "awaitCommit"]
                /\ UNCHANGED <<ret, actionRet>>
    /\ UNCHANGED <<fixed, call, result, resp, deploymentsData, target, promoteResp>>

GitHubSettles(p) ==
    /\ pc[p] = "awaitCommit"
    /\ \E r \in GitHubResponses :
        LET c == FetchGitHubCommitDiffCont(r, input[p]) IN
        /\ resp' = [resp EXCEPT ![p] = r]
        /\ Finish(p, c, GitHubActionResult(c, input[p]))
    /\ UNCHANGED <<fixed, call, result, op, input, requests, deploymentsData, target, promoteResp>>

-----------------------------------------------------------------------------

Next ==
    \/ \E p \in Procs : CallFetchGitHubCommitDiff(p)
    \/ \E p \in Procs : GitHubSettles(p)
    \/ \E p \in Procs : CallFetchSentryIssues(p)
    \/ \E p \in Procs : SentrySettles(p)
    \/ \E p \in Procs : CallFetchVercelDeployments(p)
    \/ \E p \in Procs : ListSettles(p)
    \/ \E p \in Procs : CallExecuteVercelRollback(p)
    \/ \E p \in Procs : RollbackListSettles(p)
    \/ \E p \in Procs : PromoteSettles(p)

Spec == Init /\ [][Next]_vars

\* two invocations run concurrently with every credential configured
ConcEnvs == {e \in Envs : /\ e.VERCEL_TOKEN /\ e.GITHUB_TOKEN /\ e.SENTRY_AUTH_TOKEN
                          /\ e.SENTRY_ORG /\ e.SENTRY_PROJECT_SLUG
                          /\ ~e.VERCEL_TEAM_ID}

InitConc ==
    /\ InitState(ConcEnvs, Procs,
                 [deps |-> ConcWidth, issues |-> ConcWidth, files |-> ConcWidth])
    /\ call = NoCall
    /\ result = NoResult

SpecConc == InitConc /\ [][Next]_vars

-----------------------------------------------------------------------------
(* Properties *)

Done(p) == pc[p] = "done"

\* the requests of slot p to one endpoint
RequestsTo(p, endpoint) ==
    {i \in 1..Len(requests[p]) : requests[p][i].endpoint = endpoint}

\* slot p ran executeVercelRollback with VERCEL_TOKEN configured
RealRollback(p) == op[p] = "rollback" /\ env.VERCEL_TOKEN

\* the list request of slot p failed: non-2xx or transport exception
ListRequestFailed(p) == resp[p].kind \in {"non2xx", "rejectError", "rejectOther"}

FailedResult(r) == ~r.success /\ r.status = "failed" /\ r.progress = 0

CompletedResult(r) == r.success /\ r.status = "completed" /\ r.progress = 100

\* C1: every RollbackResult that executeVercelRollback returns is terminal:
\* success implies completed with progress 100, failure implies failed with
\* progress 0, and initiated / in-progress are never returned.
RollbackResultTerminal ==
    \A p \in Procs :
        (Done(p) /\ op[p] = "rollback" /\ ~ret[p].exc) =>
            LET r == ret[p].value IN
            /\ r.success => (r.status = "completed" /\ r.progress = 100)
            /\ ~r.success => (r.status = "failed" /\ r.progress = 0)
            /\ r.status \notin {"initiated", "in-progress"}

\* a rollback with a token has returned a failure
RollbackFailureReturned ==
    \E p \in Procs :
        /\ Done(p) /\ RealRollback(p) /\ ~ret[p].exc
        /\ ~ret[p].value.success

\* C2: with VERCEL_TOKEN configured, a failed list request (non-2xx or
\* transport exception) makes executeVercelRollback return success=false,
\* status failed, progress 0 and a message 'Rollback failed: ' + reason.
ListFailureFailsRollback ==
    \A p \in Procs :
        (Done(p) /\ RealRollback(p) /\ ListRequestFailed(p)) =>
            /\ ~ret[p].exc
            /\ FailedResult(ret[p].value)
            /\ Len(ret[p].value.message) >= 2
            /\ ret[p].value.message[1] = "Rollback failed: "

\* C3: executeVercelRollback never throws past its boundary: it completes
\* by returning, so the catch of executeVercelRollbackAction is never taken.
RollbackNeverThrows ==
    \A p \in Procs :
        (Done(p) /\ op[p] = "rollback") =>
            /\ ~ret[p].exc
            /\ ~actionRet[p].caught
            /\ actionRet[p].value = ret[p].value

\* a rollback has returned after the promote fetch rejected with a value
\* that is not an Error
RollbackSurvivedPromoteReject ==
    \E p \in Procs :
        /\ Done(p) /\ RealRollback(p)
        /\ promoteResp[p].kind = "rejectOther"
        /\ ~ret[p].exc

\* C4: with VERCEL_TOKEN configured and a successful promote, the rollback
\* succeeds and previousDeploymentId is the id of the first deployment, in
\* the order fetchVercelDeployments returned, whose id differs from the
\* request's deploymentId and whose status is READY.
FirstEligibleSelected ==
    \A p \in Procs :
        (Done(p) /\ RealRollback(p) /\ promoteResp[p].kind = "ok") =>
            LET deps == deploymentsData[p].deployments
                r == ret[p].value
            IN
            /\ ~ret[p].exc
            /\ r.success
            /\ \E i \in 1..Len(deps) :
                /\ deps[i].id = r.previousDeploymentId
                /\ deps[i].id # input[p].deploymentId
                /\ deps[i].status = "READY"
                /\ \A j \in 1..(i - 1) :
                    ~(deps[j].id # input[p].deploymentId /\ deps[j].status = "READY")

\* a rollback has succeeded on a list with two different eligible
\* deployments, and the first one is the previous deployment
FirstOfTwoEligibleSelected ==
    \E p \in Procs :
        LET deps == deploymentsData[p].deployments IN
        /\ Done(p) /\ RealRollback(p) /\ promoteResp[p].kind = "ok"
        /\ Len(deps) = 2
        /\ deps[1].id # deps[2].id
        /\ \A i \in 1..2 : deps[i].id # input[p].deploymentId /\ deps[i].status = "READY"
        /\ ret[p].value.previousDeploymentId = deps[1].id

\* the list response of slot p is successful: 2xx with a deployments array
\* whose entries all normalize
ListResponseSuccessful(p) ==
    /\ resp[p].kind = "ok"
    /\ \A i \in 1..Len(resp[p].deployments) : resp[p].deployments[i].createdValid

\* some deployment of the list response of slot p is eligible
ListedEligible(p) ==
    \E i \in 1..Len(resp[p].deployments) :
        /\ resp[p].deployments[i].uid # input[p].deploymentId
        /\ resp[p].deployments[i].state = "READY"

\* C5: with VERCEL_TOKEN configured and a successful list response: no
\* eligible deployment gives the failure 'Rollback failed: No suitable
\* deployment found for rollback' and no promote request; a target with a
\* non-successful promote gives a failure; a target with a successful
\* promote gives completed with progress 100.
RollbackOutcomeDetermined ==
    \A p \in Procs :
        (Done(p) /\ RealRollback(p) /\ ListResponseSuccessful(p)) =>
            /\ ~ret[p].exc
            /\ ~ListedEligible(p) =>
                /\ FailedResult(ret[p].value)
                /\ ret[p].value.message =
                     <<"Rollback failed: ", "No suitable deployment found for rollback">>
                /\ RequestsTo(p, "promote") = {}
            /\ (ListedEligible(p) /\ promoteResp[p].kind # "ok") =>
                FailedResult(ret[p].value)
            /\ (ListedEligible(p) /\ promoteResp[p].kind = "ok") =>
                CompletedResult(ret[p].value)

\* a rollback has failed on a non-empty successful list without an
\* eligible deployment
NoSuitableDeploymentReturned ==
    \E p \in Procs :
        /\ Done(p) /\ RealRollback(p) /\ ListResponseSuccessful(p)
        /\ Len(resp[p].deployments) > 0
        /\ ~ListedEligible(p)
        /\ ~ret[p].value.success

\* a rollback has failed on a successful list because the promote response
\* was not successful
PromoteRefusedReturned ==
    \E p \in Procs :
        /\ Done(p) /\ RealRollback(p) /\ ListResponseSuccessful(p)
        /\ ListedEligible(p)
        /\ promoteResp[p].kind = "non2xx"
        /\ ~ret[p].value.success

ReadOps == {"issues", "commit", "list"}

\* the fields of the response of a read client
OutputShape(o) ==
    CASE o = "issues" -> {"issues", "summary"}
      [] o = "commit" -> {"commit", "diff", "analysis"}
      [] o = "list" -> {"deployments"}

CredentialAbsent(p) ==
    CASE op[p] = "issues" ->
            \/ ~env.SENTRY_AUTH_TOKEN
            \/ ~env.SENTRY_ORG
            \/ (input[p].projectId = None /\ ~env.SENTRY_PROJECT_SLUG)
      [] op[p] = "commit" -> ~env.GITHUB_TOKEN
      [] op[p] = "list" -> ~env.VERCEL_TOKEN
      [] OTHER -> FALSE

\* the fixed mock response of the read client of slot p for its input
MockResponse(p) ==
    CASE op[p] = "issues" -> getMockSentryData
      [] op[p] = "commit" -> getMockGitHubData(input[p])
      [] op[p] = "list" -> getMockVercelDeployments(input[p])

\* C7: a read client whose required credential is absent returns its mock
\* response and issues no network request.
NoCredentialNoRequest ==
    \A p \in Procs :
        (op[p] \in ReadOps /\ CredentialAbsent(p)) =>
            /\ requests[p] = <<>>
            /\ Done(p)
            /\ ~ret[p].exc
            /\ ret[p].value = MockResponse(p)

\* an issue fetch has returned with only the organization missing
SentryOrgMissingReturned ==
    \E p \in Procs :
        /\ Done(p) /\ op[p] = "issues"
        /\ env.SENTRY_AUTH_TOKEN /\ env.SENTRY_PROJECT_SLUG /\ ~env.SENTRY_ORG
        /\ requests[p] = <<>>

\* the real call of the read client of slot p failed at the transport or at
\* the shape check of the body
RealCallFailed(p) ==
    /\ op[p] \in ReadOps
    /\ resp[p].kind \in {"non2xx", "rejectError", "rejectOther", "badJson",
                         "nonArray", "noField", "noFiles"}

\* C8: the response a read client returns after a failed real call is the
\* mock response it returns for that input without credentials; a 500 of
\* the deployment list endpoint yields the mock deployment list.
FailureYieldsSameMock ==
    \A p \in Procs :
        (Done(p) /\ RealCallFailed(p)) =>
            /\ ~ret[p].exc
            /\ ret[p].value = MockResponse(p)

\* a deployment list call has returned after a non-2xx response
ListNon2xxReturned ==
    \E p \in Procs :
        /\ Done(p) /\ op[p] = "list" /\ resp[p].kind = "non2xx"
        /\ Len(requests[p]) = 1

\* C9: no retries: a read client issues at most one request, a rollback at
\* most one list request and at most one promote request.
NoRetries ==
    \A p \in Procs :
        /\ op[p] \in ReadOps => Len(requests[p]) <= 1
        /\ op[p] = "rollback" =>
            /\ Cardinality(RequestsTo(p, "list")) <= 1
            /\ Cardinality(RequestsTo(p, "promote")) <= 1
            /\ Len(requests[p]) <= 2

\* a rollback has returned a failure after a refused promote request
PromoteFailedOnce ==
    \E p \in Procs :
        /\ Done(p) /\ RealRollback(p)
        /\ promoteResp[p].kind \in {"non2xx", "rejectError"}
        /\ Cardinality(RequestsTo(p, "promote")) = 1

-----------------------------------------------------------------------------
(* Concurrent invocations *)

\* the completion of executeVercelRollback run alone with the list outcome
\* r and the promote outcome pr
SoloRollback(options, r, pr) ==
    LET data == FetchVercelDeploymentsCont(r, RollbackListOptions(options))
        t == FindTarget(data.value.deployments, options)
        f == FetchCompletion(pr, "Vercel rollback error: ")
    IN IF t = NoDeployment
       THEN RollbackTry(NewError(<<"No suitable deployment found for rollback">>), options)
       ELSE RollbackTry(IF f.exc THEN f ELSE Return(RollbackSuccess(options, t)), options)

\* the completion of the invocation of slot p when it runs alone with its
\* input, the configuration and the outcomes of its own requests
SoloCompletion(p) ==
    CASE op[p] = "issues" ->
            IF requests[p] = <<>> THEN Return(getMockSentryData)
            ELSE FetchSentryIssuesCont(resp[p], input[p])
      [] op[p] = "commit" ->
            IF requests[p] = <<>> THEN Return(getMockGitHubData(input[p]))
            ELSE FetchGitHubCommitDiffCont(resp[p], input[p])
      [] op[p] = "list" ->
            IF requests[p] = <<>> THEN Return(getMockVercelDeployments(input[p]))
            ELSE FetchVercelDeploymentsCont(resp[p], input[p])
      [] op[p] = "rollback" ->
            IF requests[p] = <<>> THEN Return(getMockRollbackResult(input[p]))
            ELSE SoloRollback(input[p], resp[p], promoteResp[p])

\* C11: under any interleaving of concurrent invocations, the result of
\* each invocation is the result it produces alone with the same input,
\* configuration and responses to its own requests, and two invocations
\* that agree on these agree on their requests and results.
IndependentResults ==
    /\ \A p \in Procs : Done(p) => ret[p] = SoloCompletion(p)
    /\ \A p, q \in Procs :
        (/\ Done(p) /\ Done(q)
         /\ op[p] = op[q] /\ input[p] = input[q]
         /\ resp[p] = resp[q] /\ promoteResp[p] = promoteResp[q]) =>
            /\ ret[p] = ret[q]
            /\ requests[p] = requests[q]

\* two rollbacks of the same deployment ran together, one failed at its
\* list request and its promote request, the other succeeded
FailureBesideSuccess ==
    /\ Done("p1") /\ Done("p2")
    /\ op["p1"] = "rollback" /\ op["p2"] = "rollback"
    /\ input["p1"] = input["p2"]
    /\ resp["p1"].kind = "non2xx" /\ promoteResp["p1"].kind = "non2xx"
    /\ ~ret["p1"].value.success
    /\ resp["p2"].kind = "ok"
    /\ ret["p2"].value.success

-----------------------------------------------------------------------------
(* fetchSentryIssues applied to one body *)

\* longest issue list of a body
MaxRawIssues == 12

\* largest limit a caller supplies
MaxLimit == 12

Levels == {None, "error", "fatal", "warning", "info"}

\* raw issues with every combination of the fields the normalizer reads
RawIssueDomain ==
    { RawIssue(TRUE, title, mtype, mvalue, culprit, hasEntries, hasStack, frames,
               level, count) :
        title \in {None, "T"}, mtype \in {None, "TypeError"},
        mvalue \in {None, "boom"}, culprit \in {None, "app.js"},
        hasEntries \in BOOLEAN, hasStack \in BOOLEAN,
        frames \in {<<>>, <<"f", None>>, <<"a", "b", "c", "d", "e", "g">>},
        level \in Levels, count \in {NoCount, 0, 3} }

\* the raw issues a long body cycles through
Palette ==
    << RawIssue(TRUE, "T", None, "boom", None, FALSE, FALSE, <<>>, "error", 3),
       RawIssue(TRUE, None, "TypeError", None, "app.js", FALSE, FALSE, <<>>, "warning", 1),
       RawIssue(TRUE, "U", None, None, None, FALSE, FALSE, <<>>, "fatal", NoCount) >>

\* a body of n issues with the ids 1..n that cycles through the palette
\* from offset k
LongBody(n, k) ==
    [i \in 1..n |-> [Palette[((i + k) % Len(Palette)) + 1] EXCEPT !.id = ToString(i)]]

NullIssue == RawIssue(FALSE, None, None, None, None, FALSE, FALSE, <<>>, None, 0)

IssueBodies ==
    {<<x>> : x \in RawIssueDomain}
    \cup {LongBody(n, k) : n \in 0..MaxRawIssues, k \in 0..2}
    \cup {<<Palette[1], NullIssue>>, <<NullIssue>>}

IssueOptions == [projectId : {"proj"}, severity : {None},
                 limit : {NoLimit} \cup 0..MaxLimit]

InitIssues ==
    /\ InitState(ConcEnvs, {}, FullWidth)
    /\ call \in [fn : {"fetchSentryIssues"}, options : IssueOptions, issues : IssueBodies]
    /\ result = NoResult

\* fetchSentryIssues from the settled fetch on with the body call.issues
ApplyFetchSentryIssues ==
    /\ call.fn = "fetchSentryIssues" /\ ~result.done
    /\ result' = [done |-> TRUE,
                  value |-> FetchSentryIssuesCont(
                                [kind |-> "ok", statusText |-> "OK", issues |-> call.issues],
                                call.options)]
    /\ UNCHANGED <<fixed, call, op, input, pc, requests, resp, deploymentsData, target,
                   promoteResp, ret, actionRet>>

NextIssues == ApplyFetchSentryIssues

SpecIssues == InitIssues /\ [][NextIssues]_vars

\* the call of fetchSentryIssues has returned
IssuesReturned == call.fn = "fetchSentryIssues" /\ result.done /\ ~result.value.exc

\* every raw issue of the body is an object
AllObjects == \A i \in 1..Len(call.issues) : call.issues[i].isObject

Min(a, b) == IF a <= b THEN a ELSE b

\* C12: on the real path every normalized issue is critical when the raw
\* level is error or fatal and warning for every other level, a missing
\* level included; resolved is never produced.
SeverityClassified ==
    (IssuesReturned /\ AllObjects) =>
        LET out == result.value.value.issues IN
        \A i \in 1..Len(out) :
            /\ call.issues[i].level \in {"error", "fatal"} => out[i].severity = "critical"
            /\ call.issues[i].level \notin {"error", "fatal"} => out[i].severity = "warning"
            /\ out[i].severity # "resolved"

\* a fatal issue has been classified
FatalClassified ==
    /\ IssuesReturned /\ AllObjects
    /\ Len(result.value.value.issues) = 1
    /\ call.issues[1].level = "fatal"
    /\ result.value.value.issues[1].severity = "critical"

\* the sum of the count fields of the issues up to index n
RECURSIVE TotalUpTo(_, _)
TotalUpTo(issues, n) == IF n = 0 THEN 0 ELSE TotalUpTo(issues, n - 1) + issues[n].count

\* C13: in every response of fetchSentryIssues, real or mock, critical +
\* warning is the number of returned issues, resolved is 0 and totalEvents
\* is the sum of the count fields of the returned issues.
SummaryIsFold ==
    IssuesReturned =>
        LET v == result.value.value IN
        /\ v.summary.critical + v.summary.warning = Len(v.issues)
        /\ v.summary.resolved = 0
        /\ v.summary.totalEvents = TotalUpTo(v.issues, Len(v.issues))

\* a response with issues of both severities and events has been returned
MixedSummaryReturned ==
    /\ IssuesReturned /\ AllObjects
    /\ result.value.value.summary.critical >= 2
    /\ result.value.value.summary.warning >= 1
    /\ result.value.value.summary.totalEvents > 3

\* the number of issues the caller asked for
RequestedLimit == IF call.options.limit = NoLimit THEN 10 ELSE call.options.limit

\* C14: a successful fetch of n raw issues returns exactly the first
\* min(limit, n) raw issues in upstream order for every non-negative limit,
\* and the first min(10, n) without a limit.
SlicedToLimit ==
    (IssuesReturned /\ AllObjects) =>
        LET out == result.value.value.issues IN
        /\ Len(out) = Min(RequestedLimit, Len(call.issues))
        /\ \A i \in 1..Len(out) : out[i].id = call.issues[i].id

-----------------------------------------------------------------------------
(* parsePatch applied to one patch *)

\* most lines of a generated patch
MaxLines == 3

\* most lines of a long patch of added lines
MaxLong == 22

\* "@@ -1,3 +5,3 @@" and "@@ -2 +2 @@"
Hunk5 == <<"@", "@", " ", "-", "1", ",", "3", " ", "+", "5", ",", "3", " ", "@", "@">>
Hunk2 == <<"@", "@", " ", "-", "2", " ", "+", "2", " ", "@", "@">>

\* "@@ x": starts like a hunk header without its ranges
HunkBad == <<"@", "@", " ", "x">>

\* "--- a/x", "+++ b/x", "diff --git", "index 1", "\ No newline"
OldFileLine == <<"-", "-", "-", " ", "a", "/", "x">>
NewFileLine == <<"+", "+", "+", " ", "b", "/", "x">>
DiffLine == <<"d", "i", "f", "f", " ", "-", "-", "g", "i", "t">>
IndexLine == <<"i", "n", "d", "e", "x", " ", "1">>
NoNewlineLine == <<"\\", " ", "N", "o", " ", "n", "e", "w", "l", "i", "n", "e">>

PatchLineKinds ==
    { Hunk5, Hunk2, HunkBad, <<"+", "c">>, <<"-", "b">>, <<" ", "a">>, <<>>,
      OldFileLine, NewFileLine, DiffLine, IndexLine, NoNewlineLine }

\* a hunk header followed by n added lines with the contents 1..n
LongPatch(n) == <<Hunk2>> \o [i \in 1..n |-> <<"+", ToString(i)>>]

\* patch.split("\n") yields at least one line
PatchTexts ==
    (SeqsUpTo(PatchLineKinds, MaxLines) \ {<<>>})
    \cup {PatchHunk, PatchDebug}
    \cup {LongPatch(n) : n \in 19..MaxLong}

InitPatch ==
    /\ InitState(ConcEnvs, {}, FullWidth)
    /\ call \in [fn : {"parsePatch"}, lines : PatchTexts]
    /\ result = NoResult

ApplyParsePatch ==
    /\ call.fn = "parsePatch" /\ ~result.done
    /\ result' = [done |-> TRUE, value |-> parsePatch(call.lines)]
    /\ UNCHANGED <<fixed, call, op, input, pc, requests, resp, deploymentsData, target,
                   promoteResp, ret, actionRet>>

NextPatch == ApplyParsePatch

SpecPatch == InitPatch /\ [][NextPatch]_vars

PatchParsed == call.fn = "parsePatch" /\ result.done

\* the line starts with @@
HeaderLine(l) == Len(l) >= 2 /\ l[1] = "@" /\ l[2] = "@"

\* the line starts with +, - or a space
PrefixedLine(l) == Len(l) >= 1 /\ l[1] \in {"+", "-", " "}

TypeOfLine(l) == CASE l[1] = "+" -> "add" [] l[1] = "-" -> "remove" [] l[1] = " " -> "context"

\* the indices of the lines of the patch that satisfy Test, ascending
Indices(lines, Test(_)) ==
    SelectSeq([i \in 1..Len(lines) |-> i], LAMBDA i : Test(lines[i]))

\* the new-file start of the headers of the generated patches
HeaderStart(l) == CASE l = Hunk5 -> 5 [] l = Hunk2 -> 2 [] OTHER -> -1

\* the lines starting with @@ after line a and before line b
HeadersBetween(lines, a, b) == {j \in (a + 1)..(b - 1) : HeaderLine(lines[j])}

Max(S) == CHOOSE x \in S : \A y \in S : y <= x

\* C15: the counter starts at 0; a hunk header '@@ -a,b +c,d @@' sets it to
\* c and emits nothing; an add or context line emits a record with the
\* counter and increments it; a remove line emits a record with the counter
\* and leaves it.  So within a hunk the next lineNumber is the previous one
\* plus 1 after add or context and the previous one after remove.
CounterTracksNewFile ==
    PatchParsed =>
        LET lines == call.lines
            out == result.value
            idx == Indices(lines, PrefixedLine)
        IN
        \A k \in 1..Len(out) :
            LET prev == IF k = 1 THEN 0 ELSE idx[k - 1]
                hdrs == HeadersBetween(lines, prev, idx[k])
            IN
            /\ out[k].type = TypeOfLine(lines[idx[k]])
            /\ (hdrs = {} /\ k = 1) => out[k].lineNumber = 0
            /\ (hdrs = {} /\ k > 1) =>
                out[k].lineNumber =
                    out[k - 1].lineNumber
                    + (IF out[k - 1].type \in {"add", "context"} THEN 1 ELSE 0)
            /\ (hdrs # {} /\ HeaderStart(lines[Max(hdrs)]) # -1) =>
                out[k].lineNumber = HeaderStart(lines[Max(hdrs)])

\* a remove line after a hunk header was followed by another record with
\* the same line number
RemoveFroze ==
    /\ PatchParsed
    /\ call.lines = <<Hunk5, <<"-", "b">>, <<"+", "c">>>>
    /\ Len(result.value) = 2
    /\ result.value[1].lineNumber = 5
    /\ result.value[2].lineNumber = 5

LineNumbersOf(out) == [k \in 1..Len(out) |-> out[k].lineNumber]
TypesOf(out) == [k \in 1..Len(out) |-> out[k].type]

\* C16 as stated: the hunk '@@ -1,3 +5,3 @@' followed by ' a', '-b', '+c',
\* ' d' yields context, remove, add, context with line numbers 5, 5, 6, 6.
RegressionCaseAsStated ==
    (PatchParsed /\ call.lines = PatchHunk) =>
        /\ TypesOf(result.value) = <<"context", "remove", "add", "context">>
        /\ LineNumbersOf(result.value) = <<5, 5, 6, 6>>

\* C16: the hunk '@@ -1,3 +5,3 @@' followed by ' a', '-b', '+c', ' d' yields
\* four records context, remove, add, context with line numbers 5, 6, 6, 7.
RegressionCase ==
    (PatchParsed /\ call.lines = PatchHunk) =>
        /\ TypesOf(result.value) = <<"context", "remove", "add", "context">>
        /\ LineNumbersOf(result.value) = <<5, 6, 6, 7>>

\* the regression patch has been parsed into four records
RegressionParsed ==
    /\ PatchParsed /\ call.lines = PatchHunk
    /\ Len(result.value) = 4

\* C17: parsePatch returns the first min(20, k) of the k records the scan
\* emits, in emission order, so never more than 20.
TruncatedToTwenty ==
    PatchParsed =>
        LET lines == call.lines
            out == result.value
            idx == Indices(lines, PrefixedLine)
        IN
        /\ Len(out) <= 20
        /\ Len(out) = Min(20, Len(idx))
        /\ \A k \in 1..Len(out) :
            /\ out[k].type = TypeOfLine(lines[idx[k]])
            /\ out[k].content = SubSeq(lines[idx[k]], 2, Len(lines[idx[k]]))

\* a patch with more than 20 candidate lines has been cut to 20 records
LongPatchTruncated ==
    /\ PatchParsed
    /\ Len(Indices(call.lines, PrefixedLine)) > 20
    /\ Len(result.value) = 20
    /\ result.value[20].content = <<"20">>

\* the line is a diff metadata header or empty
MetadataLine(l) ==
    \/ l = <<>>
    \/ HasAt(l, 1, <<"-", "-", "-", " ">>)
    \/ HasAt(l, 1, <<"+", "+", "+", " ">>)
    \/ HasAt(l, 1, <<"d", "i", "f", "f", " ">>)
    \/ HasAt(l, 1, <<"i", "n", "d", "e", "x", " ">>)

ChangeLineOf(l) == PrefixedLine(l) /\ ~MetadataLine(l)

\* C18: a line that is neither a hunk header nor an add, remove or context
\* line emits no record; in particular '--- a/<path>', '+++ b/<path>',
\* 'diff --git ...', 'index ...' and empty lines produce no ChangeLine, so
\* the records are those of the remaining prefixed lines.
MetadataIgnored ==
    PatchParsed =>
        LET lines == call.lines
            out == result.value
            idx == Indices(lines, ChangeLineOf)
        IN
        /\ Len(out) = Min(20, Len(idx))
        /\ \A k \in 1..Len(out) :
            out[k].content = SubSeq(lines[idx[k]], 2, Len(lines[idx[k]]))

-----------------------------------------------------------------------------
(* analyzeChanges applied to one list of change records *)

\* most records of a generated change list
MaxChanges == 2

\* "console.log(x)", "// TODO", "FIXME", "x: any", "many", "todo", "x"
LineDebug == ConsoleLog \o <<"(", "x", ")">>
LineTodo == <<"/", "/", " ">> \o Todo
LineFixme == Fixme
LineAny == <<"x", ":", " ">> \o AnyLit
LineMany == <<"m">> \o AnyLit
LineLowerTodo == <<"t", "o", "d", "o">>
LinePlain == <<"x">>

\* "console.log(x as any) // TODO"
LineAll == ConsoleLog \o <<"(", "x", " ", "a", "s", " ">> \o AnyLit \o <<")", " ", "/", "/", " ">> \o Todo

ChangeContents ==
    {LineDebug, LineTodo, LineFixme, LineAny, LineMany, LineLowerTodo, LinePlain, LineAll}

ChangeRecords == [lineNumber : {1}, type : {"add", "remove", "context"},
                  content : ChangeContents]

InitAnalyze ==
    /\ InitState(ConcEnvs, {}, FullWidth)
    /\ call \in [fn : {"analyzeChanges"}, changes : SeqsUpTo(ChangeRecords, MaxChanges),
                 filename : {<<"a", "ts">>}]
    /\ result = NoResult

ApplyAnalyzeChanges ==
    /\ call.fn = "analyzeChanges" /\ ~result.done
    /\ result' = [done |-> TRUE, value |-> analyzeChanges(call.changes, call.filename)]
    /\ UNCHANGED <<fixed, call, op, input, pc, requests, resp, deploymentsData, target,
                   promoteResp, ret, actionRet>>

NextAnalyze == ApplyAnalyzeChanges

SpecAnalyze == InitAnalyze /\ [][NextAnalyze]_vars

Analyzed == call.fn = "analyzeChanges" /\ result.done

\* the patterns each generated content contains
PatternsOf(content) ==
    CASE content = LineDebug -> {"debug"}
      [] content = LineTodo -> {"todo"}
      [] content = LineFixme -> {"todo"}
      [] content = LineAny -> {"any"}
      [] content = LineMany -> {"any"}
      [] content = LineAll -> {"debug", "todo", "any"}
      [] OTHER -> {}

PresentInAdded(changes, pattern) ==
    \E i \in 1..Len(changes) :
        changes[i].type = "add" /\ pattern \in PatternsOf(changes[i].content)

DebugAdvisory == "Debug logging statement added - consider removing before production"
TodoAdvisory == "TODO/FIXME comments found - incomplete work may exist"
AnyAdvisory == "TypeScript 'any' type used - consider using specific types"
GenericAdvisory == "No obvious issues detected - changes appear safe"

\* C19: analyzeChanges looks at add records only and returns, in the order
\* debug-print, TODO/FIXME, 'any', one advisory per pattern present in some
\* added line; it returns the single generic advisory exactly when none is
\* present, so the result has 1 to 3 entries and never mixes the generic
\* advisory with a specific one.
AdvisoriesFollowPatterns ==
    Analyzed =>
        LET out == result.value
            has(p) == PresentInAdded(call.changes, p)
            specific == (IF has("debug") THEN <<DebugAdvisory>> ELSE <<>>)
                        \o (IF has("todo") THEN <<TodoAdvisory>> ELSE <<>>)
                        \o (IF has("any") THEN <<AnyAdvisory>> ELSE <<>>)
        IN
        /\ out = (IF specific = <<>> THEN <<GenericAdvisory>> ELSE specific)
        /\ Len(out) >= 1 /\ Len(out) <= 3
        /\ (\E i \in 1..Len(out) : out[i] = GenericAdvisory) => out = <<GenericAdvisory>>
        /\ (out = <<GenericAdvisory>>) <=> ~(has("debug") \/ has("todo") \/ has("any"))

\* a removed line with 'any' beside an added debug print gave the debug
\* advisory alone
RemovedLineNotInspected ==
    /\ Analyzed
    /\ call.changes = <<[lineNumber |-> 1, type |-> "remove", content |-> LineAny],
                        [lineNumber |-> 1, type |-> "add", content |-> LineDebug]>>
    /\ result.value = <<DebugAdvisory>>

-----------------------------------------------------------------------------
(* File selection of fetchGitHubCommitDiff *)

\* the commit request of slot p was answered 2xx with a complete body
CommitFetched(p) ==
    /\ Done(p) /\ op[p] = "commit"
    /\ Len(requests[p]) = 1
    /\ resp[p].kind = "ok"

\* the positions of the files of the body with the given name
PositionsOf(files, fileName) == {i \in 1..Len(files) : files[i].filename = fileName}

\* the diff of the result of slot p was built from the file f
DiffBuiltFrom(p, f) ==
    /\ ~ret[p].exc
    /\ ret[p].value.commit.sha = input[p].commitSha
    /\ ret[p].value.diff.fileName = f.filename
    /\ ret[p].value.diff.additions = f.additions
    /\ ret[p].value.diff.deletions = f.deletions
    /\ ret[p].value.diff.changes = parsePatch(PatchLines(f.patch))

\* C20: on a successful commit fetch the diff is built from the file named
\* by fileName, or from the first file when no fileName is given; when the
\* named file is not among the files, or there are no files, the operation
\* returns the mock CommitDiff and substitutes no other file.
NamedOrFirstFile ==
    \A p \in Procs :
        CommitFetched(p) =>
            LET files == resp[p].files
                fileName == input[p].fileName
                at == PositionsOf(files, fileName)
            IN
            /\ (fileName # <<>> /\ at # {}) =>
                DiffBuiltFrom(p, files[CHOOSE i \in at : \A j \in at : i <= j])
            /\ (fileName = <<>> /\ Len(files) > 0) => DiffBuiltFrom(p, files[1])
            /\ ((fileName # <<>> /\ at = {}) \/ Len(files) = 0) =>
                /\ ~ret[p].exc
                /\ ret[p].value = getMockGitHubData(input[p])

\* a commit with files but without the named one has returned the mock
MissingFileGaveMock ==
    \E p \in Procs :
        /\ CommitFetched(p)
        /\ input[p].fileName = <<"missing", "md">>
        /\ Len(resp[p].files) > 0
        /\ ret[p].value = getMockGitHubData(input[p])

-----------------------------------------------------------------------------
(* The map callback of fetchSentryIssues applied to one raw issue, in the
   two copies of api-clients.ts the repository holds *)

\* the record the map callback of the copy part_000 returns: its
\* stackTrace is issue.metadata?.value || ""
NormalizeIssueMetadataOnly(issue, project) ==
    [id |-> issue.id,
     title |-> IF issue.title # None THEN issue.title
               ELSE IF issue.metaType # None THEN issue.metaType
               ELSE "Unknown error",
     severity |-> IF issue.level = "error" \/ issue.level = "fatal"
                  THEN "critical" ELSE "warning",
     count |-> IF issue.count = NoCount THEN 0 ELSE issue.count,
     project |-> project,
     affectedUsers |-> issue.userCount,
     stackTrace |-> IF issue.metaValue # None THEN <<issue.metaValue>> ELSE <<>>]

Copies == {"part_000", "part_001"}

InitNormalize ==
    /\ InitState(ConcEnvs, {}, FullWidth)
    /\ call \in [fn : {"normalize"}, copy : Copies, issue : RawIssueDomain]
    /\ result = NoResult

\* the callback of part_001 runs on the raw issue
ApplyNormalizeIssue ==
    /\ call.fn = "normalize" /\ call.copy = "part_001" /\ ~result.done
    /\ result' = [done |-> TRUE, value |-> NormalizeIssue(call.issue, "proj")]
    /\ UNCHANGED <<fixed, call, op, input, pc, requests, resp, deploymentsData, target,
                   promoteResp, ret, actionRet>>

\* the callback of part_000 runs on the raw issue
ApplyNormalizeIssueMetadataOnly ==
    /\ call.fn = "normalize" /\ call.copy = "part_000" /\ ~result.done
    /\ result' = [done |-> TRUE, value |-> NormalizeIssueMetadataOnly(call.issue, "proj")]
    /\ UNCHANGED <<fixed, call, op, input, pc, requests, resp, deploymentsData, target,
                   promoteResp, ret, actionRet>>

NextNormalize == ApplyNormalizeIssue \/ ApplyNormalizeIssueMetadataOnly

SpecNormalize == InitNormalize /\ [][NextNormalize]_vars

Normalized == call.fn = "normalize" /\ result.done

\* the last five frames of the generated frame lists, one per line
ExpectedFrames(frames) ==
    CASE frames = <<"f", None>> ->
            <<"at ", "f", " (file:line:col)", "\n",
              "at ", "anonymous", " (file:line:col)">>
      [] frames = <<"a", "b", "c", "d", "e", "g">> ->
            <<"at ", "b", " (file:line:col)", "\n",
              "at ", "c", " (file:line:col)", "\n",
              "at ", "d", " (file:line:col)", "\n",
              "at ", "e", " (file:line:col)", "\n",
              "at ", "g", " (file:line:col)">>
      [] OTHER -> <<>>

\* the last event of the raw issue has an exception entry with frames
HasFrames(issue) == issue.hasEntries /\ issue.hasStacktrace /\ issue.frames # <<>>

\* the stack trace is the placeholder for some title
IsPlaceholder(stackTrace) ==
    Len(stackTrace) = 2 /\ stackTrace[2] = " (no stack trace available)"

\* the chain of C21 for the raw issue and the normalized stack trace
FollowsChain(issue, stackTrace) ==
    /\ issue.metaValue # None => stackTrace = <<issue.metaValue>>
    /\ (issue.metaValue = None /\ issue.culprit # None) =>
        stackTrace = <<"at ", issue.culprit>>
    /\ (issue.metaValue = None /\ issue.culprit = None /\ HasFrames(issue)) =>
        stackTrace = ExpectedFrames(issue.frames)
    /\ (issue.metaValue = None /\ issue.culprit = None /\ ~HasFrames(issue)) =>
        IsPlaceholder(stackTrace)
    /\ stackTrace # <<>>

\* C21: the stackTrace of a normalized issue is the metadata value if
\* present; otherwise 'at ' + culprit if present; otherwise the last 5
\* frames of the exception entry of the last event, one per line; otherwise
\* the '(no stack trace available)' placeholder; it is never empty.
StackTraceChain ==
    Normalized => FollowsChain(call.issue, result.value.stackTrace)

\* the chain in the copy part_001 alone
StackTraceChainPart001 ==
    (Normalized /\ call.copy = "part_001") =>
        FollowsChain(call.issue, result.value.stackTrace)

\* the raw issue has no metadata value, no culprit and no usable frames
NoTraceSource(issue) ==
    issue.metaValue = None /\ issue.culprit = None /\ ~HasFrames(issue)

\* C22: without a metadata value, a culprit and usable frames the
\* stackTrace is the normalized title (raw title, else metadata type, else
\* 'Unknown error') followed by ' (no stack trace available)', also when the
\* raw title is absent.
PlaceholderUsesTitle ==
    (Normalized /\ call.copy = "part_001" /\ NoTraceSource(call.issue)) =>
        result.value.stackTrace = <<result.value.title, " (no stack trace available)">>

\* the placeholder when the raw issue has a title
PlaceholderUsesRawTitle ==
    (Normalized /\ call.copy = "part_001" /\ NoTraceSource(call.issue)
     /\ call.issue.title # None) =>
        result.value.stackTrace = <<result.value.title, " (no stack trace available)">>

-----------------------------------------------------------------------------
(* Safety of the rollback write path *)

\* the ids the list endpoint returned to slot p
ListedIds(p) ==
    IF resp[p].kind = "ok"
    THEN {resp[p].deployments[k].uid : k \in 1..Len(resp[p].deployments)}
    ELSE {}

\* C23: a rollback never issues a promote request for a deployment id that
\* the list endpoint did not return in that invocation; in particular it
\* never promotes the synthetic 'dpl_mock_current'.
PromotesOnlyListed ==
    \A p \in Procs :
        \A i \in RequestsTo(p, "promote") :
            /\ requests[p][i].id \in ListedIds(p)
            /\ requests[p][i].id # "dpl_mock_current"

\* slot p returned from executeVercelRollback
RollbackReturned(p) == Done(p) /\ op[p] = "rollback" /\ ~ret[p].exc

\* a promote request of slot p received a successful response
PromoteSucceeded(p) ==
    /\ RequestsTo(p, "promote") # {}
    /\ promoteResp[p].kind = "ok"

\* C24: whenever executeVercelRollback returns success=true, a promote
\* request was issued in that invocation and received a successful
\* response, whatever the configuration.
SuccessMeansPromoted ==
    \A p \in Procs :
        (RollbackReturned(p) /\ ret[p].value.success) => PromoteSucceeded(p)

\* C24 with VERCEL_TOKEN configured
SuccessMeansPromotedWithToken ==
    \A p \in Procs :
        (RollbackReturned(p) /\ env.VERCEL_TOKEN /\ ret[p].value.success) =>
            PromoteSucceeded(p)

\* C25: whenever executeVercelRollback returns success=false, no promote
\* request of that invocation received a successful response.
FailureMeansNotPromoted ==
    \A p \in Procs :
        (RollbackReturned(p) /\ ~ret[p].value.success) => ~PromoteSucceeded(p)

\* a rollback has returned a failure after its promote request was answered
\* with a non-2xx status
FailedAfterRefusedPromote ==
    \E p \in Procs :
        /\ RollbackReturned(p) /\ ~ret[p].value.success
        /\ RequestsTo(p, "promote") = {2}
        /\ promoteResp[p].kind = "non2xx"
        /\ ret[p].value.progress = 0

-----------------------------------------------------------------------------
(* One RollbackRequest run to completion against fixed endpoint responses,
   by executeVercelRollback and by the rollback_deployment tool of the
   example MCP server *)

RollbackRequests ==
    [deploymentId : RequestDeploymentIds, projectName : {"web"},
     targetVersion : {None, "dpl_a", "dpl_b"}, reason : {None, "bad deploy"}]

\* the requests issued, the target selected and the completion of
\* executeVercelRollback when the list request settles as r and the
\* promote request, if issued, as pr
ExecuteVercelRollbackOutcome(options, r, pr) ==
    IF ~env.VERCEL_TOKEN
    THEN [requests |-> <<>>, target |-> NoDeployment,
          ret |-> Return(getMockRollbackResult(options))]
    ELSE LET listRequest == ListRequest(RollbackListOptions(options))
             data == FetchVercelDeploymentsCont(r, RollbackListOptions(options))
             t == FindTarget(data.value.deployments, options)
             f == FetchCompletion(pr, "Vercel rollback error: ")
         IN IF t = NoDeployment
            THEN [requests |-> <<listRequest>>, target |-> t,
                  ret |-> RollbackTry(
                              NewError(<<"No suitable deployment found for rollback">>),
                              options)]
            ELSE [requests |-> <<listRequest, PromoteRequest(t)>>, target |-> t,
                  ret |-> RollbackTry(IF f.exc THEN f
                                      ELSE Return(RollbackSuccess(options, t)),
                                      options)]

NoRawDeployment == [uid |-> None, state |-> None, createdValid |-> FALSE]

\* deployments.find(d => d.uid === targetVersion)
RECURSIVE FindVersion(_, _, _)
FindVersion(deps, i, targetVersion) ==
    IF i > Len(deps) THEN NoRawDeployment
    ELSE IF deps[i].uid = targetVersion THEN deps[i]
    ELSE FindVersion(deps, i + 1, targetVersion)

\* deployments.find(d => d.uid !== deploymentId && d.readyState === "READY");
\* the state of a raw deployment stands for its readyState
RECURSIVE FindPrevious(_, _, _)
FindPrevious(deps, i, deploymentId) ==
    IF i > Len(deps) THEN NoRawDeployment
    ELSE IF deps[i].uid # deploymentId /\ deps[i].state = "READY" THEN deps[i]
    ELSE FindPrevious(deps, i + 1, deploymentId)

\* uid.substring(0, 8)
Substring8(uid) == IF uid = "dpl_mock_current" THEN "dpl_mock" ELSE uid

\* the body of vercelApiRequest and of the case rollback_deployment
RollbackDeploymentTry(args, r) ==
    LET f == FetchCompletion(r, "Vercel API error: ") IN
    IF f.exc THEN f
    ELSE IF r.kind = "badJson" THEN Throw(TRUE, <<"Unexpected token">>)
    ELSE IF r.kind = "noField"
         THEN Throw(TRUE, <<"Cannot read properties of undefined">>)
    ELSE LET previousDeployment ==
                 IF args.targetVersion # None
                 THEN FindVersion(r.deployments, 1, args.targetVersion)
                 ELSE FindPrevious(r.deployments, 1, args.deploymentId)
         IN IF previousDeployment = NoRawDeployment
            THEN NewError(<<"No suitable previous deployment found for rollback">>)
            ELSE Return([success |-> TRUE,
                         deploymentId |-> args.deploymentId,
                         previousDeploymentId |-> previousDeployment.uid,
                         status |-> "completed",
                         progress |-> 100,
                         message |-> <<"Successfully rolled back ", args.projectName,
                                       " to deployment ",
                                       Substring8(previousDeployment.uid)>>])

\* the tool result carries no rollback result
NoToolValue ==
    [success |-> FALSE, deploymentId |-> None, previousDeploymentId |-> None,
     status |-> None, progress |-> 0, message |-> <<>>]

\* the request issued and the tool result of rollback_deployment: the
\* catch of the handler turns an exception into {error: error.message}
RollbackDeploymentOutcome(args, r) ==
    LET t == RollbackDeploymentTry(args, r) IN
    [requests |-> <<ListRequest([projectName |-> args.projectName, limit |-> 5])>>,
     ret |-> IF t.exc
             THEN [isError |-> TRUE, error |-> t.message, value |-> NoToolValue]
             ELSE [isError |-> FALSE, error |-> <<>>, value |-> t.value]]

\* the example server exits at start-up without VERCEL_TOKEN
RequestEnvs ==
    {e \in Envs : /\ e.GITHUB_TOKEN /\ e.SENTRY_AUTH_TOKEN /\ e.SENTRY_ORG
                  /\ e.SENTRY_PROJECT_SLUG /\ ~e.VERCEL_TEAM_ID}

InitRequest ==
    /\ InitState(RequestEnvs, {}, FullWidth)
    /\ call \in [fn : {"executeVercelRollback", "rollback_deployment"},
                 args : RollbackRequests, list : ListResponses,
                 promote : PromoteResponses]
    /\ call.fn = "rollback_deployment" => env.VERCEL_TOKEN
    /\ result = NoResult

ApplyExecuteVercelRollback ==
    /\ call.fn = "executeVercelRollback" /\ ~result.done
    /\ result' = [done |-> TRUE,
                  value |-> ExecuteVercelRollbackOutcome(call.args, call.list, call.promote)]
    /\ UNCHANGED <<fixed, call, op, input, pc, requests, resp, deploymentsData, target,
                   promoteResp, ret, actionRet>>

ApplyRollbackDeployment ==
    /\ call.fn = "rollback_deployment" /\ ~result.done
    /\ result' = [done |-> TRUE, value |-> RollbackDeploymentOutcome(call.args, call.list)]
    /\ UNCHANGED <<fixed, call, op, input, pc, requests, resp, deploymentsData, target,
                   promoteResp, ret, actionRet>>

NextRequest == ApplyExecuteVercelRollback \/ ApplyRollbackDeployment

SpecRequest == InitRequest /\ [][NextRequest]_vars

\* the outcome of the invocation named by call when its request is args
OutcomeWith(args) ==
    IF call.fn = "executeVercelRollback"
    THEN ExecuteVercelRollbackOutcome(args, call.list, call.promote)
    ELSE RollbackDeploymentOutcome(args, call.list)

\* the requests that differ from args in targetVersion and reason at most
SameButOptional(args) ==
    {a \in RollbackRequests : /\ a.deploymentId = args.deploymentId
                              /\ a.projectName = args.projectName}

RequestServed == call.fn \in {"executeVercelRollback", "rollback_deployment"} /\ result.done

\* C26: targetVersion and reason have no effect: a rollback invocation that
\* differs from this one only in these fields, under the same configuration
\* and endpoint responses, issues the same requests, selects the same
\* target and returns the same result.
OptionalFieldsInert ==
    RequestServed => \A a \in SameButOptional(call.args) : OutcomeWith(a) = result.value

\* the reason alone has no effect on either implementation
ReasonInert ==
    RequestServed =>
        \A a \in SameButOptional(call.args) :
            a.targetVersion = call.args.targetVersion => OutcomeWith(a) = result.value

\* C26 for executeVercelRollback alone
OptionalFieldsInertInClient ==
    (RequestServed /\ call.fn = "executeVercelRollback") =>
        \A a \in SameButOptional(call.args) : OutcomeWith(a) = result.value

-----------------------------------------------------------------------------
(* The severity field of the issue-fetch input *)

\* the requests and the completion of fetchSentryIssues for the input o
\* when its request, if issued, settles as r
IssueRequestsOf(o) == IF SentryConfigured(o) THEN <<SentryRequest(o)>> ELSE <<>>

IssueCompletionOf(o, r) ==
    IF SentryConfigured(o) THEN FetchSentryIssuesCont(r, o) ELSE Return(getMockSentryData)

\* the inputs that differ from o in severity at most
SameButSeverity(o) ==
    {x \in SentryInputs : x.projectId = o.projectId /\ x.limit = o.limit}

\* C27: severity has no effect: a fetchSentryIssues invocation that differs
\* from this one only in severity, under the same configuration and service
\* response, issues the same request and returns the same issues and
\* summary, so issues are not filtered to the requested severity.
SeverityInert ==
    \A p \in Procs :
        (Done(p) /\ op[p] = "issues") =>
            \A o \in SameButSeverity(input[p]) :
                /\ requests[p] = IssueRequestsOf(o)
                /\ ret[p] = IssueCompletionOf(o, resp[p])
                /\ actionRet[p] = SentryActionResult(IssueCompletionOf(o, resp[p]))

\* a fetch that asked for critical issues has returned a warning issue
WarningReturnedForCritical ==
    \E p \in Procs :
        /\ Done(p) /\ op[p] = "issues"
        /\ input[p].severity = "critical"
        /\ resp[p].kind = "ok"
        /\ ~ret[p].exc
        /\ \E i \in 1..Len(ret[p].value.issues) :
            /\ ret[p].value.issues[i].severity = "warning"
            /\ ret[p].value.issues[i].title = "TypeError"

-----------------------------------------------------------------------------
(* The deployment events of the timeline SentinelPage builds *)

Undefined == "undefined"

\* deploy[name] of a JavaScript object: undefined when it has no such field
Field(deploy, name) == IF name \in DOMAIN deploy THEN deploy[name] ELSE Undefined

\* the event the map callback returns for the k-th deployment; of is the
\* position of the deployment the event was built from
DeploymentEvent(deploy, k) ==
    [of |-> k,
     title |-> <<"Deployment to ",
                 IF Field(deploy, "target") # Undefined THEN Field(deploy, "target")
                 ELSE "production">>,
     description |-> IF Field(deploy, "name") # Undefined THEN Field(deploy, "name")
                     ELSE "Deployment",
     status |-> IF Field(deploy, "state") = "READY" THEN "completed" ELSE "in-progress",
     meta |-> "System"]

\* (deploymentsData.deployments || []).slice(0, 2).map(...)
DeploymentEvents(deployments) ==
    [k \in 1..(IF Len(deployments) <= 2 THEN Len(deployments) ELSE 2) |->
        DeploymentEvent(deployments[k], k)]

\* the orders the sort by timestamp can give the events: a deployment has
\* no created field, so each event is stamped with the clock
SortedOrders(events) ==
    IF Len(events) = 2 THEN {events, <<events[2], events[1]>>} ELSE {events}

\* the value fetchVercelDeployments returns to the page
PageDeployments(r) ==
    LET options == [projectName |-> "demo-project", limit |-> 5] IN
    IF ~env.VERCEL_TOKEN THEN getMockVercelDeployments(options)
    ELSE FetchVercelDeploymentsCont(r, options).value

InitPage ==
    /\ InitState(RequestEnvs, {}, FullWidth)
    /\ call \in [fn : {"SentinelPage"}, list : ListResponses]
    /\ result = NoResult

\* the page renders: the deployment events of timelineData are built from
\* the deployments the list client returned; the issue events, which the
\* sort interleaves with them, are left out
RenderSentinelPage ==
    /\ call.fn = "SentinelPage" /\ ~result.done
    /\ \E events \in SortedOrders(DeploymentEvents(PageDeployments(call.list).deployments)) :
        result' = [done |-> TRUE,
                   deployments |-> PageDeployments(call.list).deployments,
                   events |-> events]
    /\ UNCHANGED <<fixed, call, op, input, pc, requests, resp, deploymentsData, target,
                   promoteResp, ret, actionRet>>

NextPage == RenderSentinelPage

SpecPage == InitPage /\ [][NextPage]_vars

PageRendered == call.fn = "SentinelPage" /\ result.done

\* C28: each deployment event of the timeline has status 'completed'
\* exactly when the Deployment it was built from has status 'READY', and
\* 'in-progress' otherwise.
EventStatusFollowsDeployment ==
    PageRendered =>
        \A i \in 1..Len(result.events) :
            LET e == result.events[i]
                d == result.deployments[e.of]
            IN /\ (e.status = "completed") <=> (d.status = "READY")
               /\ (e.status = "in-progress") <=> (d.status # "READY")

\* no deployment event of the timeline is ever completed
EventsNeverCompleted ==
    PageRendered =>
        \A i \in 1..Len(result.events) : result.events[i].status = "in-progress"

-----------------------------------------------------------------------------
(* TacticalRollbackBase: handleRollback and the progress animation.  The
   showSuccess timer is left out.  A click is an invocation of
   handleRollback, whether or not the button is drawn disabled. *)

\* most clicks in one run
MaxClicks == 3

\* everything but the component
clients == <<env, live, width, call, result, op, input, pc, requests, resp,
             deploymentsData, target, promoteResp, ret, actionRet>>

\* results onExecute resolves with
Outputs ==
    { [success |-> TRUE, status |-> "completed", progress |-> 100],
      [success |-> FALSE, status |-> "failed", progress |-> 0],
      [success |-> FALSE, status |-> "in-progress", progress |-> 3] }

\* values onExecute rejects with: an Error with a message, or another value
Rejections == { [isError |-> TRUE, message |-> "boom"],
                [isError |-> FALSE, message |-> None] }

InitComponent ==
    /\ InitClients(ConcEnvs, {}, FullWidth)
    /\ call = NoCall
    /\ result = NoResult
    /\ ui \in {MountedComponent(h) : h \in BOOLEAN}

\* the closures and the DOM of a render of the current state
RenderOf(u) == [isExecuting |-> u.isExecuting, progress |-> u.outputData.progress]

\* ClickRollback whose handler does not test isExecuting
ClickRollbackUnguarded ==
    /\ ui.mounted /\ ui.clicks < MaxClicks
    /\ IF ui.onExecute
       THEN ui' = [ui EXCEPT !.isExecuting = TRUE, !.error = None,
                             !.inFlight = @ + 1,
                             !.rendered = [isExecuting |-> TRUE,
                                           progress |-> ui.outputData.progress],
                             !.interval = ui.rendered.progress,
                             !.clicks = @ + 1]
       ELSE ui' = [ui EXCEPT !.clicks = @ + 1]
    /\ UNCHANGED clients

\* a click runs handleRollback of the last render up to its await: with
\* onExecute and !isExecuting it sets isExecuting, clears the error and
\* calls onExecute; the updates of a click are rendered, and pending
\* effects run, before the next event is handled
ClickRollback ==
    /\ ui.mounted /\ ui.clicks < MaxClicks
    /\ IF ui.onExecute /\ ~ui.rendered.isExecuting
       THEN ui' = [ui EXCEPT !.isExecuting = TRUE, !.error = None,
                             !.inFlight = @ + 1,
                             !.rendered = [isExecuting |-> TRUE,
                                           progress |-> ui.outputData.progress],
                             !.interval = ui.rendered.progress,
                             !.clicks = @ + 1]
       ELSE ui' = [ui EXCEPT !.clicks = @ + 1]
    /\ UNCHANGED clients

\* onExecute resolves: setOutputData(result), then the finally block
ExecuteResolves ==
    /\ ui.inFlight > 0
    /\ \E r \in Outputs :
        ui' = [ui EXCEPT !.outputData = r, !.isExecuting = FALSE,
                         !.inFlight = @ - 1,
                         !.settled = [kind |-> "resolved", output |-> r,
                                      message |-> None]]
    /\ UNCHANGED clients

\* onExecute rejects: setError(...), then the finally block
ExecuteRejects ==
    /\ ui.inFlight > 0
    /\ \E e \in Rejections :
        LET message == IF e.isError THEN e.message ELSE "Rollback failed" IN
        ui' = [ui EXCEPT !.error = message, !.isExecuting = FALSE,
                         !.inFlight = @ - 1,
                         !.settled = [kind |-> "rejected", output |-> NoOutput,
                                      message |-> message]]
    /\ UNCHANGED clients

\* the component renders the updates made after an await; the effects of
\* the previous render run first
Render ==
    /\ ui.mounted /\ ui.rendered # RenderOf(ui)
    /\ ui' = [ui EXCEPT !.rendered = RenderOf(ui), !.interval = ui.rendered.progress]
    /\ UNCHANGED clients

\* the progress effect runs after a render that changed outputData.progress:
\* the old interval is cleared and one for the rendered progress is set
RunEffect ==
    /\ ui.mounted /\ ui.interval # ui.rendered.progress
    /\ ui' = [ui EXCEPT !.interval = ui.rendered.progress]
    /\ UNCHANGED clients

\* the running interval fires: the updater moves localProgress towards the
\* progress its closure captured
Tick ==
    /\ ui.mounted /\ ui.interval # NoProgress
    /\ ui' = [ui EXCEPT !.localProgress =
                            IF @ < ui.interval THEN Min(@ + 2, ui.interval)
                            ELSE ui.interval,
                        !.ticks = 1 - @]
    /\ UNCHANGED clients

NextComponent ==
    \/ ClickRollback
    \/ ExecuteResolves
    \/ ExecuteRejects
    \/ Render
    \/ RunEffect
    \/ Tick

SpecComponent == InitComponent /\ [][NextComponent]_vars

\* timers fire, and the scheduler renders and runs effects
SpecComponentLive ==
    /\ SpecComponent
    /\ WF_vars(Tick) /\ WF_vars(Render) /\ WF_vars(RunEffect)

\* the step settles a call of onExecute
SettleStep == ui'.inFlight < ui.inFlight

\* the step is a click
ClickStep == ui'.clicks # ui.clicks

\* C29: at most one onExecute call is in flight at any time; a click while
\* isExecuting is true starts no second execution; when an execution
\* settles isExecuting returns to false, with the result stored in
\* outputData on resolution and the error message stored, outputData
\* unchanged, on rejection.
ExecutionsSerialized ==
    /\ [](ui.inFlight <= 1 /\ (ui.isExecuting <=> ui.inFlight = 1))
    /\ [][(ClickStep /\ ui.isExecuting) => ui'.inFlight = ui.inFlight]_vars
    /\ [][SettleStep =>
            /\ ~ui'.isExecuting
            /\ ui'.settled.kind = "resolved" =>
                (ui'.outputData = ui'.settled.output /\ ui'.error = ui.error)
            /\ ui'.settled.kind = "rejected" =>
                (ui'.error = ui'.settled.message /\ ui'.outputData = ui.outputData)]_vars

\* a second click arrived while the first execution was in flight and
\* started nothing
ClickWhileExecuting ==
    /\ ui.mounted /\ ui.onExecute
    /\ ui.clicks >= 2
    /\ ui.inFlight = 1 /\ ui.isExecuting
    /\ ui.settled = NotSettled

\* the step is a tick of an interval
TickStep == ui'.ticks # ui.ticks

ResultReceived == ui.outputData # NoOutput

Progresses == {r.progress : r \in Outputs}

\* C30: once a result with progress p has been received, after every tick
\* localProgress is at most p, a tick raises it by at most 2 while it is
\* below p, and under fair ticking localProgress eventually equals p and
\* then stays at p until a result with a different progress arrives.
ProgressFollowsResult ==
    /\ [][(TickStep /\ ResultReceived) =>
            ui'.localProgress <= ui.outputData.progress]_vars
    /\ [][(TickStep /\ ResultReceived /\ ui.localProgress < ui.outputData.progress) =>
            ui'.localProgress <= ui.localProgress + 2]_vars
    /\ \A p \in Progresses :
          (ui.outputData.progress = p)
              ~> (ui.localProgress = p \/ ui.outputData.progress # p)
    /\ [][(ResultReceived /\ ui.localProgress = ui.outputData.progress
           /\ ui'.outputData.progress = ui.outputData.progress) =>
            ui'.localProgress = ui.localProgress]_vars

\* the running interval is the one the effect set for the received result
IntervalCurrent == ui.interval = ui.outputData.progress

\* C30 for the ticks of the interval set for the received result
ProgressFollowsCurrentInterval ==
    /\ [][(TickStep /\ ResultReceived /\ IntervalCurrent) =>
            ui'.localProgress <= ui.outputData.progress]_vars
    /\ [][(TickStep /\ ResultReceived /\ ui.localProgress < ui.outputData.progress) =>
            ui'.localProgress <= ui.localProgress + 2]_vars
    /\ \A p \in Progresses :
          (ui.outputData.progress = p)
              ~> (ui.localProgress = p \/ ui.outputData.progress # p)
    /\ [][(ResultReceived /\ IntervalCurrent
           /\ ui.localProgress = ui.outputData.progress
           /\ ui'.outputData.progress = ui.outputData.progress) =>
            ui'.localProgress = ui.localProgress]_vars

====
